---------------------------- MODULE Spec2Model ----------------------------
(***************************************************************************)
(* A model of the offline backtesting engine                               *)
(* (backend/app/services/backtest.py) and of the part of the indicator     *)
(* library it calls (backend/app/utils/indicators.py).                     *)
(*                                                                         *)
(* Numbers.  The engine computes on Python floats.  The model computes on  *)
(* exact rationals <<n, d>> (d > 0, lowest terms), so every product,       *)
(* quotient and comparison of the source is translated literally; what is  *)
(* abstracted is only the floating-point rounding error.                   *)
(*                                                                         *)
(* Indicators.  calculate_rsi, calculate_macd and calculate_bollinger_bands*)
(* are pandas computations over the closes (rolling means, exponential     *)
(* smoothing, a standard deviation).  They are computed from the closes    *)
(* as the source computes them: RSI and the Bollinger middle exactly, MACD *)
(* in millionths of a price unit, and a Bollinger band as its middle, its  *)
(* multiplier and its variance, so that a comparison with a price is       *)
(* decided on squares.  calculate_volume_trend is computed from the        *)
(* candles' volumes.                                                       *)
(***************************************************************************)
EXTENDS Integers, Sequences, FiniteSets, TLC

(***************************************************************************)
(* Exact rational arithmetic                                               *)
(***************************************************************************)
\* (The operations are functions, so that an argument is evaluated once,
\* where the function is applied.)
Abs(n) == IF n < 0 THEN -n ELSE n

GCD[a \in Nat, b \in Nat] == IF b = 0 THEN a ELSE GCD[b, a % b]

Norm[n \in Int, d \in Int] ==
    LET g == GCD[Abs(n), Abs(d)]
        s == IF d < 0 THEN -1 ELSE 1
    IN  <<s * (n \div g), s * (d \div g)>>

Rat == Int \X Int

R(n) == <<n, 1>>
Frac(n, d) == Norm[n, d]

RNeg[a \in Rat] == <<-a[1], a[2]>>

RAdd[a \in Rat, b \in Rat] ==
    LET g == GCD[a[2], b[2]]
    IN  Norm[a[1] * (b[2] \div g) + b[1] * (a[2] \div g), (a[2] \div g) * b[2]]

RSub[a \in Rat, b \in Rat] == RAdd[a, RNeg[b]]

RMul[a \in Rat, b \in Rat] ==
    LET g1 == GCD[Abs(a[1]), b[2]]
        g2 == GCD[Abs(b[1]), a[2]]
    IN  IF a[1] = 0 \/ b[1] = 0 THEN <<0, 1>>
        ELSE <<(a[1] \div g1) * (b[1] \div g2), (a[2] \div g2) * (b[2] \div g1)>>

RInv[a \in Rat] == IF a[1] < 0 THEN <<-a[2], -a[1]>> ELSE <<a[2], a[1]>>

RDiv[a \in Rat, b \in Rat] == RMul[a, RInv[b]]

RLt[a \in Rat, b \in Rat] == RSub[a, b][1] < 0
RLe[a \in Rat, b \in Rat] == RSub[a, b][1] <= 0
RGt[a \in Rat, b \in Rat] == RLt[b, a]
RGe[a \in Rat, b \in Rat] == RLe[b, a]

RMin[a \in Rat, b \in Rat] == IF RLe[a, b] THEN a ELSE b
RAbs[a \in Rat] == <<Abs(a[1]), a[2]>>

RSum[s \in Seq(Rat)] == IF s = <<>> THEN R(0) ELSE RAdd[Head(s), RSum[Tail(s)]]

\* Python's round(x, 2): the nearest multiple of 1/100, ties to even.
Round2[x \in Rat] ==
    LET y == RMul[x, R(100)]
        q == y[1] \div y[2]
        r == y[1] - q * y[2]
        up == (2 * r > y[2]) \/ (2 * r = y[2] /\ q % 2 = 1)
    IN  Frac(IF up THEN q + 1 ELSE q, 100)

Reverse(s) == [k \in 1..Len(s) |-> s[Len(s) + 1 - k]]

\* ".tolist()": the list of the values of a pandas Series or numpy array
ToList(values) == SubSeq(values, 1, Len(values))


(***************************************************************************)
(* Program constants                                                       *)
(***************************************************************************)
TRADING_FEE == Frac(3, 1000)
SLIPPAGE == Frac(1, 1000)
\* run_backtest refuses fewer candles than this
MinCandles == 50
\* run_backtest's loop starts at this (0-based) index
min_lookback == 30
\* the smallest trade run_backtest opens, in USD
MinTradeUsd == 10
\* the confidence _generate_signal starts from, and its clamp
BaseConfidence == 50
MinConfidence == 20
MaxConfidence == 90
\* calculate_volume_trend's default period, and the window run_backtest gives it
VolumePeriod == 7
VolumeWindow == 14
\* the default periods of calculate_rsi, calculate_macd and
\* calculate_bollinger_bands, and the latter's multiplier of the deviation
RsiPeriod == 14
MacdFast == 12
MacdSlow == 26
MacdSignal == 9
BollingerPeriod == 20
BollingerStdDev == 2

\* Python's None, for an unset price (a rational) and an unset timestamp
NoPrice == <<>>
NoTimestamp == -1
NoResult == [symbol |-> "None"]

(***************************************************************************)
(* BacktestEngine.__init__: the engine keeps exactly its six arguments.    *)
(***************************************************************************)
BacktestEngine(initial_capital, position_size, confidence_threshold, max_positions, stop_loss_pct, take_profit_pct) ==
    [initial_capital      |-> initial_capital,
     position_size        |-> position_size,
     confidence_threshold |-> confidence_threshold,
     max_positions        |-> max_positions,
     stop_loss_pct        |-> stop_loss_pct,
     take_profit_pct      |-> take_profit_pct]

(***************************************************************************)
(* Bounds of the model and the inputs drawn within them                    *)
(***************************************************************************)
\* candles after the warm-up that may differ from the quiet candle
MaxEvents == 2
\* candles a series may have beyond MinCandles
MaxExtra == 2
\* symbols in one multi-symbol call
MaxSymbols == 2
\* calls of run_backtest on one engine with the same candles
MaxRuns == 2
\* closed trades, and points of an equity curve, given to _calculate_results
MaxTrades == 3
MaxCurve == 3
\* ... and the length of the curves given to it for the drawdown
DrawdownLen == 4
\* The longest list of volumes calculate_volume_trend is called on
MaxVolumes == 16

\* BacktestEngine(): every argument at its default
DefaultEngine == BacktestEngine(R(1000), R(100), 70, 3, Frac(10, 100), Frac(20, 100))

\* The engines the model constructs: the defaults, and the defaults with a
\* single position slot, with a negative position size, with a capital a
\* quarter of which is under the position size (and, after one entry,
\* under the minimum trade), and with a threshold over the largest
\* confidence.
Engines ==
    { DefaultEngine,
      BacktestEngine(R(1000), R(100), 70, 1, Frac(10, 100), Frac(20, 100)),
      BacktestEngine(R(1000), R(-100), 70, 3, Frac(10, 100), Frac(20, 100)),
      BacktestEngine(R(44), R(100), 70, 3, Frac(10, 100), Frac(20, 100)),
      BacktestEngine(R(1000), R(100), 95, 3, Frac(10, 100), Frac(20, 100)) }


(***************************************************************************)
(* indicators.py: calculate_volume_trend                                   *)
(***************************************************************************)
IntSum[s \in Seq(Int)] == IF s = <<>> THEN 0 ELSE Head(s) + IntSum[Tail(s)]

\* Python's s[a:b] for 0 <= a, b
Slice(s, a, b) == SubSeq(s, a + 1, IF b > Len(s) THEN Len(s) ELSE b)

\* A volume trend that counts a change of exactly 10% as a trend.
calculate_volume_trend_inclusive(volumes, period) ==
    IF Len(volumes) < period THEN "STABLE"
    ELSE
      LET n == Len(volumes)
          recent == Slice(volumes, n - period, n)
          older == IF n >= period * 2
                   THEN Slice(volumes, n - period * 2, n - period)
                   ELSE Slice(volumes, 0, period)
          avg_recent == Frac(IntSum[recent], Len(recent))
          avg_older == Frac(IntSum[older], Len(older))
      IN  IF avg_older = R(0) THEN "STABLE"
          ELSE
            LET change_pct ==
                    RMul[RDiv[RSub[avg_recent, avg_older], avg_older], R(100)]
            IN  IF RGe[change_pct, R(10)] THEN "INCREASING"
                ELSE IF RLe[change_pct, R(-10)] THEN "DECREASING"
                ELSE "STABLE"

calculate_volume_trend(volumes, period) ==
    IF Len(volumes) < period THEN "STABLE"
    ELSE
      LET n == Len(volumes)
          recent == Slice(volumes, n - period, n)
          older == IF n >= period * 2
                   THEN Slice(volumes, n - period * 2, n - period)
                   ELSE Slice(volumes, 0, period)
          avg_recent == Frac(IntSum[recent], Len(recent))
          avg_older == Frac(IntSum[older], Len(older))
      IN  IF avg_older = R(0) THEN "STABLE"
          ELSE
            LET change_pct ==
                    RMul[RDiv[RSub[avg_recent, avg_older], avg_older], R(100)]
            IN  IF RGt[change_pct, R(10)] THEN "INCREASING"
                ELSE IF RLt[change_pct, R(-10)] THEN "DECREASING"
                ELSE "STABLE"

(***************************************************************************)
(* indicators.py: calculate_rsi, calculate_macd, calculate_bollinger_bands *)
(* (pandas Series are sequences; a value at Python index k is at position  *)
(* k + 1)                                                                  *)
(***************************************************************************)
\* pandas' NaN, as a rational of denominator 0
NaN == <<0, 0>>

\* "df['close'].diff()": NaN first
Diff[prices \in Seq(Rat)] ==
    [p \in 1..Len(prices) |->
        IF p = 1 THEN NaN ELSE RSub[prices[p], prices[p - 1]]]

\* "delta.where(delta > 0, 0)" and "-delta.where(delta < 0, 0)": where the
\* test fails, NaN included, the value is 0
Gains[delta \in Seq(Rat)] ==
    [p \in 1..Len(delta) |->
        IF delta[p] # NaN /\ delta[p][1] > 0 THEN delta[p] ELSE R(0)]

Losses[delta \in Seq(Rat)] ==
    [p \in 1..Len(delta) |->
        IF delta[p] # NaN /\ delta[p][1] < 0 THEN RNeg[delta[p]] ELSE R(0)]

\* The window of the given length that ends at position p
Window(values, window, p) == [q \in 1..window |-> values[p - window + q]]

MeanOf[w \in Seq(Rat)] == RDiv[RSum[w], R(Len(w))]

\* ".rolling(window=w).mean()": NaN until the window is full
RollingMean[values \in Seq(Rat), window \in Nat] ==
    [p \in 1..Len(values) |->
        IF p < window THEN NaN ELSE MeanOf[Window(values, window, p)]]

\* "rs = gain / loss; rsi = 100 - (100 / (1 + rs))", then ".fillna(50.0)":
\* a zero loss gives rs = inf, rsi = 100, and 0 / 0 gives NaN, filled with 50
RsiOf[gain \in Rat, loss \in Rat] ==
    IF gain = NaN \/ loss = NaN THEN R(50)
    ELSE IF loss = R(0) THEN (IF gain = R(0) THEN R(50) ELSE R(100))
    ELSE RSub[R(100), RDiv[R(100), RAdd[R(1), RDiv[gain, loss]]]]

Rsi[gain \in Seq(Rat), loss \in Seq(Rat)] ==
    [p \in 1..Len(gain) |-> RsiOf[gain[p], loss[p]]]

calculate_rsi(prices, period) ==
    IF Len(prices) < period + 1
    THEN [p \in 1..Len(prices) |-> R(50)]
    ELSE Rsi[RollingMean[Gains[Diff[prices]], period],
             RollingMean[Losses[Diff[prices]], period]]

\* The exponential averages of calculate_macd are carried in millionths of a
\* price unit, rounded down, as offsets from the first price (the averages
\* are linear in the prices and start at the first price).
Micro == 1000000

Offsets[prices \in Seq(Rat)] ==
    [p \in 1..Len(prices) |->
        (RMul[RSub[prices[p], prices[1]], R(Micro)][1])
           \div (RMul[RSub[prices[p], prices[1]], R(Micro)][2])]

\* ".ewm(span=span, adjust=False).mean()": with alpha = 2 / (span + 1),
\* y[0] = x[0] and y[t] = (1 - alpha) * y[t-1] + alpha * x[t], the average
\* being left as it is when it equals the new value
EwmStep(span, weighted, cur) ==
    IF weighted = cur THEN weighted
    ELSE ((span - 1) * weighted + 2 * cur) \div (span + 1)

EwmFrom[values \in Seq(Int), span \in Nat, acc \in Seq(Int)] ==
    IF Len(acc) >= Len(values) THEN acc
    ELSE EwmFrom[values, span,
                 Append(acc, EwmStep(span, acc[Len(acc)], values[Len(acc) + 1]))]

Ewm[values \in Seq(Int), span \in Nat] ==
    IF values = <<>> THEN <<>> ELSE EwmFrom[values, span, <<values[1]>>]

\* "macd_line = ema_fast - ema_slow", "histogram = macd_line - signal_line"
Minus[a \in Seq(Int), b \in Seq(Int)] == [p \in 1..Len(a) |-> a[p] - b[p]]

MacdLine(prices, fast_period, slow_period) ==
    Minus[Ewm[Offsets[prices], fast_period], Ewm[Offsets[prices], slow_period]]

MacdOf[macd_line \in Seq(Int), signal_line \in Seq(Int)] ==
    [macd      |-> macd_line,
     signal    |-> signal_line,
     histogram |-> Minus[macd_line, signal_line]]

SignalLine[macd_line \in Seq(Int), signal_period \in Nat] ==
    MacdOf[macd_line, Ewm[macd_line, signal_period]]

calculate_macd(prices, fast_period, slow_period, signal_period) ==
    SignalLine[MacdLine(prices, fast_period, slow_period), signal_period]

\* ".rolling(window=w).std()" squared: the sample variance of the window
SquaredDeviations[w \in Seq(Rat), mean \in Rat] ==
    [q \in 1..Len(w) |-> RMul[RSub[w[q], mean], RSub[w[q], mean]]]

VarOf[w \in Seq(Rat)] ==
    RDiv[RSum[SquaredDeviations[w, MeanOf[w]]], R(Len(w) - 1)]

RollingVar[values \in Seq(Rat), window \in Nat] ==
    [p \in 1..Len(values) |->
        IF p < window THEN NaN ELSE VarOf[Window(values, window, p)]]

\* A band value middle + k * std, carried as <<middle, k, std^2>> (the
\* standard deviation is a square root); NaN where the window is not full.
Band(middle, k, variance) ==
    IF middle = NaN THEN NaN ELSE <<middle, k, variance>>

\* x <= band and x >= band, decided on the squares
LeBand(x, band) ==
    /\ band # NaN
    /\ IF band[2] >= 0
       THEN \/ RLe[x, band[1]]
            \/ RLe[RMul[RSub[x, band[1]], RSub[x, band[1]]],
                   RMul[R(band[2] * band[2]), band[3]]]
       ELSE /\ RLe[x, band[1]]
            /\ RGe[RMul[RSub[x, band[1]], RSub[x, band[1]]],
                   RMul[R(band[2] * band[2]), band[3]]]

GeBand(x, band) ==
    /\ band # NaN
    /\ IF band[2] >= 0
       THEN /\ RGe[x, band[1]]
            /\ RGe[RMul[RSub[x, band[1]], RSub[x, band[1]]],
                   RMul[R(band[2] * band[2]), band[3]]]
       ELSE \/ RGe[x, band[1]]
            \/ RLe[RMul[RSub[x, band[1]], RSub[x, band[1]]],
                   RMul[R(band[2] * band[2]), band[3]]]

\* "middle + (std * std_dev)", with std_dev the (signed) multiplier
Bands[middle \in Seq(Rat), variance \in Seq(Rat), std_dev \in Int] ==
    [p \in 1..Len(middle) |-> Band(middle[p], std_dev, variance[p])]

\* ".bfill()": a NaN takes the next value that is not NaN (the NaNs are
\* the positions before the first full window)
Bfill(values, window) ==
    [p \in 1..Len(values) |->
        IF p < window /\ Len(values) >= window THEN values[window] ELSE values[p]]

BollingerOf[middle \in Seq(Rat), variance \in Seq(Rat), period \in Nat, std_dev \in Int] ==
    [upper  |-> Bfill(Bands[middle, variance, std_dev], period),
     middle |-> Bfill(middle, period),
     lower  |-> Bfill(Bands[middle, variance, -std_dev], period)]

calculate_bollinger_bands(prices, period, std_dev) ==
    BollingerOf[RollingMean[prices, period], RollingVar[prices, period],
                period, std_dev]


(***************************************************************************)
(* The candle series the model runs on                                     *)
(***************************************************************************)
\* What one candle looks like: its close, its low and its volume (open and
\* high repeat the close).  The quiet candle repeats the base price.
Kind(close, low, volume) == [close |-> close, low |-> low, volume |-> volume]

Quiet == Kind(126, 126, 1000)

Kinds ==
    { Quiet,
      Kind(110, 110, 1000),    \* a fall
      Kind(99, 99, 1000),      \* a deeper fall
      Kind(112, 110, 1000),    \* a fall with a low under the close
      Kind(126, 110, 1000),    \* the base price, with a low under it
      Kind(126, 89, 1000),     \* the same, with a low well under it
      Kind(126, 126, 2000) }   \* the base price on twice the volume

\* The candle a series may have once the windows are clear of the events
Lates == { Quiet, Kind(125, 125, 1000) }

\* Timestamps are in milliseconds, one candle per step.
TimestampOf(idx) == 1000 * (idx + 1)

Candle(idx, k) ==
    [timestamp |-> TimestampOf(idx), open |-> R(k.close), high |-> R(k.close),
     low |-> R(k.low), close |-> R(k.close), volume |-> k.volume]

\* The index of the late candle: the events have left the Bollinger window
LateIdx == min_lookback + BollingerPeriod

\* A series of n candles: quiet, but for the events right after the warm-up
\* and the late candle.  (Python index idx is position idx + 1.)
KindAt(events, late, idx) ==
    IF idx >= min_lookback /\ idx < min_lookback + Len(events)
    THEN events[idx - min_lookback + 1]
    ELSE IF idx = LateIdx THEN late ELSE Quiet

\* "Extract price arrays"
Closes(data) == [p \in 1..Len(data) |-> data[p].close]
Volumes(data) == [p \in 1..Len(data) |-> data[p].volume]

\* "Pre-calculate indicators for full dataset"
Indicators[closes \in Seq(Rat)] ==
    LET macd == calculate_macd(closes, MacdFast, MacdSlow, MacdSignal)
        bb == calculate_bollinger_bands(closes, BollingerPeriod, BollingerStdDev)
    IN  [rsi_values |-> ToList(calculate_rsi(closes, RsiPeriod)),
         macd_data  |-> [macd      |-> ToList(macd.macd),
                         signal    |-> ToList(macd.signal),
                         histogram |-> ToList(macd.histogram)],
         bb_data    |-> [upper  |-> ToList(bb.upper),
                         middle |-> ToList(bb.middle),
                         lower  |-> ToList(bb.lower)]]

Candles(n, events, late) == [p \in 1..n |-> Candle(p - 1, KindAt(events, late, p - 1))]

\* The candles, and beside them the indicators run_backtest computes from them
WithIndicators(data) == [data |-> data, ind |-> Indicators[Closes(data)]]

Series(n, events, late) == WithIndicators(Candles(n, events, late))

\* (a shorter run of events is a longer one that ends in quiet candles)
EventSeqs == [1..MaxEvents -> Kinds]

GoodLens == MinCandles..(MinCandles + MaxExtra)
ShortLens == {0, min_lookback, MinCandles - 1}

\* The event candles that close as the given ones do: with the same length
\* and late candle, their series have the same closes, so the same indicators.
SameCloses(events) ==
    { ev \in EventSeqs : \A k \in 1..MaxEvents : ev[k].close = events[k].close }


SeriesClosingAs(n, events, late) ==
    UNION { { [data |-> Candles(n, ev, late), ind |-> x] : ev \in SameCloses(events) } :
            x \in { Indicators[Closes(Candles(n, events, late))] } }

\* One sequence of events for each sequence of closes
CloseShapes ==
    { [k \in 1..MaxEvents |-> Kind(cs[k], cs[k], Quiet.volume)] :
        cs \in [1..MaxEvents -> { k.close : k \in Kinds }] }

\* (a late candle beyond the last one is not part of the series)
SingleInputs ==
    UNION { SeriesClosingAs(n, ev, late) :
              n \in GoodLens, ev \in CloseShapes, late \in Lates }
    \cup { Series(n, <<>>, Quiet) : n \in ShortLens }


(***************************************************************************)
(* BacktestEngine._generate_signal.  The rules run in the source's order   *)
(* over s = [action, confidence, reasons], each an operator of its own.    *)
(***************************************************************************)
SignalStart == [action |-> "HOLD", confidence |-> BaseConfidence, reasons |-> <<>>]

\* "RSI signals"
RsiRule(s, rsi) ==
    IF RLt[rsi, R(30)]
    THEN [action |-> "BUY", confidence |-> s.confidence + 20,
          reasons |-> Append(s.reasons, "RSI oversold")]
    ELSE IF RLt[rsi, R(40)]
    THEN [s EXCEPT !.confidence = @ + 10,
                   !.reasons = Append(@, "RSI approaching oversold")]
    ELSE IF RGt[rsi, R(70)]
    THEN [s EXCEPT !.confidence = @ - 15,
                   !.reasons = Append(@, "RSI overbought - avoid")]
    ELSE s

\* A MACD rule whose bearish branch also takes a BUY back.
MacdRuleResetting(s, macd) ==
    IF macd.histogram > 0 /\ macd.macd > macd.signal
    THEN [action |-> "BUY", confidence |-> s.confidence + 15,
          reasons |-> Append(s.reasons, "MACD bullish")]
    ELSE IF macd.histogram < 0
    THEN [action |-> "HOLD", confidence |-> s.confidence - 10,
          reasons |-> Append(s.reasons, "MACD bearish")]
    ELSE s

\* "MACD signals"
MacdRule(s, macd) ==
    IF macd.histogram > 0 /\ macd.macd > macd.signal
    THEN [action |-> "BUY", confidence |-> s.confidence + 15,
          reasons |-> Append(s.reasons, "MACD bullish")]
    ELSE IF macd.histogram < 0
    THEN [s EXCEPT !.confidence = @ - 10, !.reasons = Append(@, "MACD bearish")]
    ELSE s

\* "Volume trend"
VolumeRule(s, volume_trend) ==
    IF volume_trend = "INCREASING"
    THEN [s EXCEPT !.confidence = @ + 10, !.reasons = Append(@, "Volume increasing")]
    ELSE IF volume_trend = "DECREASING"
    THEN [s EXCEPT !.confidence = @ - 10, !.reasons = Append(@, "Volume decreasing")]
    ELSE s

\* "Bollinger Bands"
BollingerRule(s, current_price, bb_data, index) ==
    IF index < Len(bb_data.lower)
    THEN IF LeBand(current_price, bb_data.lower[index + 1])
         THEN [action |-> "BUY", confidence |-> s.confidence + 15,
               reasons |-> Append(s.reasons, "Price at lower Bollinger Band")]
         ELSE IF GeBand(current_price, bb_data.upper[index + 1])
         THEN [s EXCEPT !.confidence = @ - 15,
                        !.reasons = Append(@, "Price at upper Bollinger Band")]
         ELSE s
    ELSE s

\* A clamp that has the floor but not the ceiling.
NormalizeFloorOnly(s) ==
    [s EXCEPT !.confidence = IF @ < MinConfidence THEN MinConfidence ELSE @]

\* "Normalize confidence": max(20, min(90, confidence))
Normalize(s) ==
    [s EXCEPT !.confidence =
        IF @ > MaxConfidence THEN MaxConfidence
        ELSE IF @ < MinConfidence THEN MinConfidence ELSE @]

\* "Apply confidence threshold"
ThresholdRule(self, s) ==
    [s EXCEPT !.action = IF s.confidence < self.confidence_threshold
                         THEN "HOLD" ELSE @]

_generate_signal(self, current_price, rsi, macd, volume_trend, bb_data, index) ==
    ThresholdRule(self,
      Normalize(
        BollingerRule(
          VolumeRule(MacdRule(RsiRule(SignalStart, rsi), macd), volume_trend),
          current_price, bb_data, index)))

(***************************************************************************)
(* ai_analyzer.py: AIAnalyzer._fallback_analysis.  Of the returned dict,   *)
(* the reasoning text, the analysis id and the time of day are left out;   *)
(* symbol and token_data take no part in the rules.                        *)
(***************************************************************************)
\* "confidence = min(confidence, 100)"
CapConfidence(a) ==
    [a EXCEPT !.confidence = IF RGt[@, R(100)] THEN R(100) ELSE @]

_fallback_analysis(indicators) ==
    LET rsi == indicators.rsi
        volume_trend == indicators.volume_trend
        macd_histogram == indicators.macd.histogram
        riskLevel == IF RGt[rsi, R(70)] \/ RLt[rsi, R(30)] THEN "HIGH" ELSE "MEDIUM"
        out(decision, confidence, risk_factors) ==
            CapConfidence([decision |-> decision, confidence |-> confidence,
                           risk_factors |-> risk_factors, riskLevel |-> riskLevel])
    IN  IF RLt[rsi, R(30)]
        THEN IF volume_trend = "INCREASING" \/ macd_histogram > 0
             THEN out("BUY", RAdd[R(70), RSub[R(30), rsi]], <<>>)
             ELSE out("NO_BUY", R(55), <<"weak_volume">>)
        ELSE IF RGt[rsi, R(70)]
        THEN out("SELL", RAdd[R(65), RSub[rsi, R(70)]], <<"overbought">>)
        ELSE IF macd_histogram > 0 /\ volume_trend = "INCREASING"
        THEN out("BUY", R(60), <<>>)
        ELSE IF macd_histogram < 0 /\ volume_trend = "DECREASING"
        THEN out("NO_BUY", R(55), <<"bearish_momentum">>)
        ELSE out("NO_BUY", R(50), <<>>)

(***************************************************************************)
(* BacktestTrade and BacktestEngine._calculate_trade_pnl                   *)
(***************************************************************************)
BacktestTrade(entry_timestamp, entry_price, position_size, confidence, indicators) ==
    [entry_timestamp |-> entry_timestamp,
     exit_timestamp  |-> NoTimestamp,
     direction       |-> "LONG",
     entry_price     |-> entry_price,
     exit_price      |-> NoPrice,
     position_size   |-> position_size,
     pnl             |-> R(0),
     pnl_percent     |-> R(0),
     fees            |-> R(0),
     confidence      |-> confidence,
     indicators      |-> indicators]

\* A test that takes a trade that breaks even for a winner.
is_winner_or_even(trade) == RGe[trade.pnl, R(0)]

\* "return self.pnl > 0"
is_winner(trade) == RGt[trade.pnl, R(0)]

\* A P&L that charges the trading fee on one side of the trade only.
_calculate_trade_pnl_one_fee(trade) ==
    IF trade.exit_price = NoPrice THEN trade
    ELSE
      LET price_change ==
              RDiv[RSub[trade.exit_price, trade.entry_price], trade.entry_price]
          gross_pnl == RMul[trade.position_size, price_change]
          fees == RMul[trade.position_size, TRADING_FEE]
          pnl == RSub[gross_pnl, fees]
      IN  [trade EXCEPT !.pnl = pnl,
                        !.pnl_percent = RMul[RDiv[pnl, trade.position_size], R(100)],
                        !.fees = fees]

\* The price change taken in price units, not as a fraction of the entry price
_calculate_trade_pnl_absolute(trade) ==
    IF trade.exit_price = NoPrice THEN trade
    ELSE
      LET price_change == RSub[trade.exit_price, trade.entry_price]
          gross_pnl == RMul[trade.position_size, price_change]
          fees == RMul[RMul[trade.position_size, TRADING_FEE], R(2)]
          pnl == RSub[gross_pnl, fees]
      IN  [trade EXCEPT !.pnl = pnl,
                        !.pnl_percent = RMul[RDiv[pnl, trade.position_size], R(100)],
                        !.fees = fees]

_calculate_trade_pnl(trade) ==
    IF trade.exit_price = NoPrice THEN trade
    ELSE
      LET price_change ==
              RDiv[RSub[trade.exit_price, trade.entry_price], trade.entry_price]
          gross_pnl == RMul[trade.position_size, price_change]
          fees == RMul[RMul[trade.position_size, TRADING_FEE], R(2)]
          pnl == RSub[gross_pnl, fees]
      IN  [trade EXCEPT !.pnl = pnl,
                        !.pnl_percent = RMul[RDiv[pnl, trade.position_size], R(100)],
                        !.fees = fees]


(***************************************************************************)
(* BacktestEngine.run_backtest: one pass of the candle loop                *)
(***************************************************************************)
\* Exit rules whose stop-loss sells at the candle's close.
CheckExitStopAtClose(self, pos, current_price, current_low, timestamp) ==
    LET current_pnl_pct ==
            RDiv[RSub[current_price, pos.entry_price], pos.entry_price]
    IN  IF RLe[current_pnl_pct, RNeg[self.stop_loss_pct]]
        THEN [pos EXCEPT
                !.exit_price = current_price,
                !.exit_timestamp = timestamp]
        ELSE IF RGe[current_pnl_pct, self.take_profit_pct]
        THEN [pos EXCEPT
                !.exit_price = RMul[pos.entry_price, RAdd[R(1), self.take_profit_pct]],
                !.exit_timestamp = timestamp]
        ELSE IF RGt[current_pnl_pct, Frac(5, 100)]
        THEN LET trail_price ==
                     RMul[pos.entry_price,
                          RAdd[R(1), RMul[current_pnl_pct, Frac(5, 10)]]]
             IN  IF RLe[current_low, trail_price]
                 THEN [pos EXCEPT !.exit_price = trail_price,
                                  !.exit_timestamp = timestamp]
                 ELSE pos
        ELSE pos

\* Exit rules whose take-profit sells at the candle's close.
CheckExitProfitAtClose(self, pos, current_price, current_low, timestamp) ==
    LET current_pnl_pct ==
            RDiv[RSub[current_price, pos.entry_price], pos.entry_price]
    IN  IF RLe[current_pnl_pct, RNeg[self.stop_loss_pct]]
        THEN [pos EXCEPT
                !.exit_price = RMul[pos.entry_price, RSub[R(1), self.stop_loss_pct]],
                !.exit_timestamp = timestamp]
        ELSE IF RGe[current_pnl_pct, self.take_profit_pct]
        THEN [pos EXCEPT
                !.exit_price = current_price,
                !.exit_timestamp = timestamp]
        ELSE IF RGt[current_pnl_pct, Frac(5, 100)]
        THEN LET trail_price ==
                     RMul[pos.entry_price,
                          RAdd[R(1), RMul[current_pnl_pct, Frac(5, 10)]]]
             IN  IF RLe[current_low, trail_price]
                 THEN [pos EXCEPT !.exit_price = trail_price,
                                  !.exit_timestamp = timestamp]
                 ELSE pos
        ELSE pos

\* Exit rules that try the trailing stop before the take-profit.
CheckExitTrailingFirst(self, pos, current_price, current_low, timestamp) ==
    LET current_pnl_pct ==
            RDiv[RSub[current_price, pos.entry_price], pos.entry_price]
        trail_price ==
            RMul[pos.entry_price, RAdd[R(1), RMul[current_pnl_pct, Frac(5, 10)]]]
    IN  IF RLe[current_pnl_pct, RNeg[self.stop_loss_pct]]
        THEN [pos EXCEPT
                !.exit_price = RMul[pos.entry_price, RSub[R(1), self.stop_loss_pct]],
                !.exit_timestamp = timestamp]
        ELSE IF RGt[current_pnl_pct, Frac(5, 100)] /\ RLe[current_low, trail_price]
        THEN [pos EXCEPT !.exit_price = trail_price,
                         !.exit_timestamp = timestamp]
        ELSE IF RGe[current_pnl_pct, self.take_profit_pct]
        THEN [pos EXCEPT
                !.exit_price = RMul[pos.entry_price, RAdd[R(1), self.take_profit_pct]],
                !.exit_timestamp = timestamp]
        ELSE pos

\* The exit rules for one open position: the position as the loop leaves it.
CheckExit(self, pos, current_price, current_low, timestamp) ==
    LET current_pnl_pct ==
            RDiv[RSub[current_price, pos.entry_price], pos.entry_price]
    IN  IF RLe[current_pnl_pct, RNeg[self.stop_loss_pct]]
        THEN [pos EXCEPT
                !.exit_price = RMul[pos.entry_price, RSub[R(1), self.stop_loss_pct]],
                !.exit_timestamp = timestamp]
        ELSE IF RGe[current_pnl_pct, self.take_profit_pct]
        THEN [pos EXCEPT
                !.exit_price = RMul[pos.entry_price, RAdd[R(1), self.take_profit_pct]],
                !.exit_timestamp = timestamp]
        ELSE IF RGt[current_pnl_pct, Frac(5, 100)]
        THEN LET trail_price ==
                     RMul[pos.entry_price,
                          RAdd[R(1), RMul[current_pnl_pct, Frac(5, 10)]]]
             IN  IF RLe[current_low, trail_price]
                 THEN [pos EXCEPT !.exit_price = trail_price,
                                  !.exit_timestamp = timestamp]
                 ELSE pos
        ELSE pos

\* The elements of s at the positions in keep, in order.
RECURSIVE Pick(_, _, _)
Pick(s, keep, j) ==
    IF j > Len(s) THEN <<>>
    ELSE IF j \in keep THEN <<s[j]>> \o Pick(s, keep, j + 1)
    ELSE Pick(s, keep, j + 1)

\* "Check open positions for exit conditions": every position as the exit
\* rules leave it, and the indices appended to positions_to_close.
CheckedPositions(self, positions, candle) ==
    [j \in 1..Len(positions) |->
        CheckExit(self, positions[j], candle.close, candle.low, candle.timestamp)]

PositionsToClose(positions, checked) ==
    { j \in 1..Len(positions) : checked[j] # positions[j] }

\* A close that pops nothing: every checked position stays in the list.
RemainingUnpopped(checked, positions_to_close) == checked

\* "for j in sorted(positions_to_close, reverse=True): pos = positions.pop(j)":
\* what is left in positions, and the popped positions in the order popped.
Remaining(checked, positions_to_close) ==
    Pick(checked, (1..Len(checked)) \ positions_to_close, 1)

Popped(checked, positions_to_close) ==
    Reverse(Pick(checked, positions_to_close, 1))

\* "Close positions and calculate P&L", given the popped positions
ClosePopped(st, remaining, popped) ==
    [capital       |-> RAdd[st.capital,
                            RSum[[j \in 1..Len(popped) |->
                                    _calculate_trade_pnl(popped[j]).pnl]]],
     positions     |-> remaining,
     closed_trades |-> st.closed_trades \o
                          [j \in 1..Len(popped) |-> _calculate_trade_pnl(popped[j])],
     equity_curve  |-> st.equity_curve]

\* The exit half of the loop body, from the locals st.
ExitStage(self, st, candle, checked) ==
    ClosePopped(st,
                Remaining(checked, PositionsToClose(st.positions, checked)),
                Popped(checked, PositionsToClose(st.positions, checked)))

\* The signal the loop body asks for at index idx.
VolumeTrendAt(data, idx) ==
    calculate_volume_trend(
        Slice(Volumes(data),
              IF idx - VolumeWindow > 0 THEN idx - VolumeWindow ELSE 0, idx),
        VolumePeriod)

\* Indicator values read one candle ahead of the current one.
IndicatorAtNext(ind, idx) ==
    LET nxt == IF idx + 2 <= Len(ind.rsi_values) THEN idx + 2 ELSE idx + 1
    IN  [rsi  |-> ind.rsi_values[nxt],
         macd |-> [macd      |-> ind.macd_data.macd[nxt],
                   signal    |-> ind.macd_data.signal[nxt],
                   histogram |-> ind.macd_data.histogram[nxt]]]

\* "Get current indicator values"
IndicatorAt(ind, idx) ==
    [rsi  |-> ind.rsi_values[idx + 1],
     macd |-> [macd      |-> ind.macd_data.macd[idx + 1],
               signal    |-> ind.macd_data.signal[idx + 1],
               histogram |-> ind.macd_data.histogram[idx + 1]]]

SignalAt(self, data, ind, idx, volume_trend) ==
    _generate_signal(self, data[idx + 1].close, IndicatorAt(ind, idx).rsi,
                     IndicatorAt(ind, idx).macd, volume_trend, ind.bb_data, idx)

\* "trade_size = min(self.position_size, capital * 0.25)"
TradeSize(self, capital) == RMin[self.position_size, RMul[capital, Frac(25, 100)]]

\* An entry test that lets a full book take one more position.
OpensAtLimit(self, st, signal) ==
    /\ Len(st.positions) <= self.max_positions
    /\ signal.action = "BUY"
    /\ signal.confidence >= self.confidence_threshold
    /\ RGe[TradeSize(self, st.capital), R(MinTradeUsd)]

\* An entry that does not look at the signal
OpensOnAnySignal(self, st, signal) ==
    /\ Len(st.positions) < self.max_positions
    /\ RGe[TradeSize(self, st.capital), R(MinTradeUsd)]

\* Whether the loop body opens a position
Opens(self, st, signal) ==
    /\ Len(st.positions) < self.max_positions
    /\ signal.action = "BUY"
    /\ signal.confidence >= self.confidence_threshold
    /\ RGe[TradeSize(self, st.capital), R(MinTradeUsd)]

\* A trade entered at the candle's close, without the entry slippage.
NewTradeAtClose(self, st, candle, indicator, signal, volume_trend) ==
    BacktestTrade(candle.timestamp,
                  candle.close,
                  TradeSize(self, st.capital),
                  signal.confidence,
                  [rsi |-> indicator.rsi,
                   macd_histogram |-> indicator.macd.histogram,
                   volume_trend |-> volume_trend])

\* "trade = BacktestTrade(...)": the position the entry opens
NewTrade(self, st, candle, indicator, signal, volume_trend) ==
    BacktestTrade(candle.timestamp,
                  RMul[candle.close, RAdd[R(1), SLIPPAGE]],
                  TradeSize(self, st.capital),
                  signal.confidence,
                  [rsi |-> indicator.rsi,
                   macd_histogram |-> indicator.macd.histogram,
                   volume_trend |-> volume_trend])

\* An entry stage whose capacity check still counts the positions that this
\* candle's exits closed.
EntryStageBeforeExits(self, st, candle, indicator, signal, volume_trend) ==
    IF /\ Opens(self, st, signal)
       /\ Len(st.positions)
            + Cardinality({ j \in 1..Len(st.closed_trades) :
                              st.closed_trades[j].exit_timestamp = candle.timestamp })
            < self.max_positions
    THEN [st EXCEPT
            !.positions = Append(@, NewTrade(self, st, candle, indicator,
                                             signal, volume_trend)),
            !.capital = RSub[@, TradeSize(self, st.capital)]]
    ELSE st

\* "Check for new entry signals", from the locals st the exits left.
EntryStage(self, st, candle, indicator, signal, volume_trend) ==
    IF Opens(self, st, signal)
    THEN [st EXCEPT
            !.positions = Append(@, NewTrade(self, st, candle, indicator,
                                             signal, volume_trend)),
            !.capital = RSub[@, TradeSize(self, st.capital)]]
    ELSE st

PositionValue(positions, current_price) ==
    RSum[[j \in 1..Len(positions) |->
            RMul[positions[j].position_size,
                 RDiv[current_price, positions[j].entry_price]]]]

\* An equity tracker that records a point only while a position is open.
TrackEquityWhenInvested(st, current_price) ==
    IF st.positions = <<>> THEN st
    ELSE [st EXCEPT !.equity_curve =
            Append(@, RAdd[st.capital, PositionValue(st.positions, current_price)])]

\* "Track equity"
TrackEquity(st, current_price) ==
    [st EXCEPT !.equity_curve =
        Append(@, RAdd[st.capital, PositionValue(st.positions, current_price)])]

\* A forced close that sells at the last close itself.
ForceCloseNoSlippage(data, st) ==
    LET closed == [j \in 1..Len(st.positions) |->
                     _calculate_trade_pnl(
                        [st.positions[j] EXCEPT
                           !.exit_price = data[Len(data)].close,
                           !.exit_timestamp = data[Len(data)].timestamp])]
    IN  [capital       |-> RAdd[st.capital,
                                RSum[[j \in 1..Len(closed) |-> closed[j].pnl]]],
         positions     |-> closed,
         closed_trades |-> st.closed_trades \o closed,
         equity_curve  |-> st.equity_curve]

\* "Close any remaining positions at last price": the positions keep their
\* place in the list and are appended, closed, to closed_trades.
ForceClose(data, st) ==
    LET final_price == data[Len(data)].close
        closed == [j \in 1..Len(st.positions) |->
                     _calculate_trade_pnl(
                        [st.positions[j] EXCEPT
                           !.exit_price = RMul[final_price, RSub[R(1), SLIPPAGE]],
                           !.exit_timestamp = data[Len(data)].timestamp])]
    IN  [capital       |-> RAdd[st.capital,
                                RSum[[j \in 1..Len(closed) |-> closed[j].pnl]]],
         positions     |-> closed,
         closed_trades |-> st.closed_trades \o closed,
         equity_curve  |-> st.equity_curve]


(***************************************************************************)
(* BacktestEngine._calculate_results                                       *)
(* (start_date and end_date are carried as the millisecond timestamps they *)
(* are built from.)                                                        *)
(***************************************************************************)
RMaxOf[s \in Seq(Rat)] == IF Len(s) = 1 THEN s[1]
             ELSE LET m == RMaxOf[Tail(s)] IN IF RGe[s[1], m] THEN s[1] ELSE m

RMinOf[s \in Seq(Rat)] == IF Len(s) = 1 THEN s[1]
             ELSE LET m == RMinOf[Tail(s)] IN IF RLe[s[1], m] THEN s[1] ELSE m

Pnls(trades) == [j \in 1..Len(trades) |-> trades[j].pnl]

\* Python's float division: a zero divisor raises ZeroDivisionError, which
\* is carried as a value in place of the quotient.
ZeroDivisionError == <<1, 0>>

PyDiv[a \in Rat, b \in Rat] == IF b = R(0) THEN ZeroDivisionError ELSE RDiv[a, b]

\* An average that divides by the length of an empty list.
AveragePnlUnguarded(trades) == PyDiv[RSum[Pnls(trades)], R(Len(trades))]

\* "sum(t.pnl for t in ts) / len(ts) if ts else 0"
AveragePnl(trades) ==
    IF Len(trades) > 0 THEN PyDiv[RSum[Pnls(trades)], R(Len(trades))] ELSE R(0)

\* One pass of "for equity in equity_curve" over the running peak and maxima.
DrawdownAcc == [peak : Rat, max_drawdown : Rat, max_drawdown_pct : Rat]

DrawdownStep[acc \in DrawdownAcc, equity \in Rat] ==
    LET peak == IF RGt[equity, acc.peak] THEN equity ELSE acc.peak
        drawdown == RSub[peak, equity]
        drawdown_pct == IF RGt[peak, R(0)]
                        THEN RMul[PyDiv[drawdown, peak], R(100)] ELSE R(0)
    IN  IF ZeroDivisionError \in {acc.max_drawdown_pct, drawdown_pct}
        THEN [acc EXCEPT !.max_drawdown_pct = ZeroDivisionError]
        ELSE IF RGt[drawdown, acc.max_drawdown]
        THEN [peak |-> peak, max_drawdown |-> drawdown,
              max_drawdown_pct |-> drawdown_pct]
        ELSE [acc EXCEPT !.peak = peak]

RECURSIVE DrawdownFrom(_, _, _)
DrawdownFrom(equity_curve, k, acc) ==
    IF k > Len(equity_curve) THEN acc
    ELSE DrawdownFrom(equity_curve, k + 1, DrawdownStep[acc, equity_curve[k]])

Drawdown(equity_curve) ==
    DrawdownFrom(equity_curve, 1,
                 [peak |-> equity_curve[1], max_drawdown |-> R(0),
                  max_drawdown_pct |-> R(0)])

\* "returns = np.diff(equity_curve) / equity_curve[:-1]"
\* (the curves of a run are positive; numpy divides by zero without raising)
Returns(equity_curve) ==
    [k \in 1..(Len(equity_curve) - 1) |->
        RDiv[RSub[equity_curve[k + 1], equity_curve[k]], equity_curve[k]]]

\* "np.std(returns) > 0": the returns are not all the same, none being the
\* inf or nan of a division by zero (the deviation of which is nan).
StdPositive(equity_curve) ==
    /\ \A k \in 1..(Len(equity_curve) - 1) : equity_curve[k] # R(0)
    /\ \E k, l \in 1..(Len(equity_curve) - 1) :
          Returns(equity_curve)[k] # Returns(equity_curve)[l]

\* The Sharpe ratio has a square root in it: it is carried as the
\* expression it is the value of, over the returns (rounding left out).
\* "sharpe = 0"
ZeroSharpe == [value |-> "0", returns |-> <<>>]

\* "(np.mean(returns) / np.std(returns)) * np.sqrt(252)"
Annualised(returns) ==
    [value |-> "mean(returns) / std(returns) * sqrt(252)", returns |-> ToList(returns)]

\* "Sharpe Ratio (simplified - assumes risk-free rate of 0)"
Sharpe(equity_curve) ==
    IF Len(equity_curve) > 1
    THEN IF StdPositive(equity_curve)
         THEN Annualised(Returns(equity_curve)) ELSE ZeroSharpe
    ELSE ZeroSharpe

\* The value _calculate_results reports for an infinite profit factor
PROFIT_FACTOR_INF == Frac(99999, 100)

ProfitFactor(gross_profit, gross_loss) ==
    IF RGt[gross_loss, R(0)]
    THEN Round2[PyDiv[gross_profit, gross_loss]]
    ELSE PROFIT_FACTOR_INF

\* What a call returns that raised ZeroDivisionError
RaisedZeroDivision == [symbol |-> "ZeroDivisionError"]

\* A zero-trade result that reports the profit factor of a run without losses.
ZeroTradeResultNoLoss(self, symbol, trades, equity_curve, timestamps, lookback) ==
    [symbol |-> symbol,
     start_date |-> timestamps[lookback + 1],
     end_date |-> timestamps[Len(timestamps)],
     initial_capital |-> self.initial_capital,
     final_capital |-> self.initial_capital,
     total_trades |-> 0,
     winning_trades |-> 0,
     losing_trades |-> 0,
     win_rate |-> R(0),
     total_pnl |-> R(0),
     total_pnl_percent |-> R(0),
     max_drawdown |-> R(0),
     max_drawdown_percent |-> R(0),
     sharpe_ratio |-> ZeroSharpe,
     avg_trade_pnl |-> R(0),
     avg_winning_trade |-> R(0),
     avg_losing_trade |-> R(0),
     largest_winner |-> R(0),
     largest_loser |-> R(0),
     profit_factor |-> PROFIT_FACTOR_INF,
     trades |-> trades,
     equity_curve |-> equity_curve]

\* "if total_trades == 0: return BacktestResult(...)"
ZeroTradeResult(self, symbol, trades, equity_curve, timestamps, lookback) ==
    [symbol |-> symbol,
     start_date |-> timestamps[lookback + 1],
     end_date |-> timestamps[Len(timestamps)],
     initial_capital |-> self.initial_capital,
     final_capital |-> self.initial_capital,
     total_trades |-> 0,
     winning_trades |-> 0,
     losing_trades |-> 0,
     win_rate |-> R(0),
     total_pnl |-> R(0),
     total_pnl_percent |-> R(0),
     max_drawdown |-> R(0),
     max_drawdown_percent |-> R(0),
     sharpe_ratio |-> ZeroSharpe,
     avg_trade_pnl |-> R(0),
     avg_winning_trade |-> R(0),
     avg_losing_trade |-> R(0),
     largest_winner |-> R(0),
     largest_loser |-> R(0),
     profit_factor |-> R(0),
     trades |-> trades,
     equity_curve |-> equity_curve]

_calculate_results(self, symbol, trades, equity_curve, timestamps, lookback) ==
    LET total_trades == Len(trades)
    IN  IF total_trades = 0
        THEN ZeroTradeResult(self, symbol, trades, equity_curve, timestamps, lookback)
        ELSE
          LET winning_trades == SelectSeq(trades, LAMBDA t : is_winner(t))
              losing_trades == SelectSeq(trades, LAMBDA t : ~is_winner(t))
              total_pnl == RSum[Pnls(trades)]
              final_capital == equity_curve[Len(equity_curve)]
              win_ratio == IF total_trades > 0
                           THEN PyDiv[R(Len(winning_trades)), R(total_trades)]
                           ELSE R(0)
              win_rate == RMul[win_ratio, R(100)]
              avg_trade_pnl == IF total_trades > 0
                               THEN PyDiv[total_pnl, R(total_trades)] ELSE R(0)
              avg_winning == AveragePnl(winning_trades)
              avg_losing == AveragePnl(losing_trades)
              gross_profit == RSum[Pnls(winning_trades)]
              gross_loss == RAbs[RSum[Pnls(losing_trades)]]
              dd == Drawdown(equity_curve)
              pnl_ratio == PyDiv[total_pnl, self.initial_capital]
          IN IF ZeroDivisionError \in
                  {win_ratio, avg_trade_pnl, avg_winning, avg_losing,
                   dd.max_drawdown_pct, pnl_ratio}
             THEN RaisedZeroDivision
             ELSE
             [symbol |-> symbol,
              start_date |-> timestamps[lookback + 1],
              end_date |-> timestamps[Len(timestamps)],
              initial_capital |-> self.initial_capital,
              final_capital |-> final_capital,
              total_trades |-> total_trades,
              winning_trades |-> Len(winning_trades),
              losing_trades |-> Len(losing_trades),
              win_rate |-> Round2[win_rate],
              total_pnl |-> Round2[total_pnl],
              total_pnl_percent |-> Round2[RMul[pnl_ratio, R(100)]],
              max_drawdown |-> Round2[dd.max_drawdown],
              max_drawdown_percent |-> Round2[dd.max_drawdown_pct],
              sharpe_ratio |-> Sharpe(equity_curve),
              avg_trade_pnl |-> Round2[avg_trade_pnl],
              avg_winning_trade |-> Round2[avg_winning],
              avg_losing_trade |-> Round2[avg_losing],
              largest_winner |-> Round2[RMaxOf[Pnls(trades)]],
              largest_loser |-> Round2[RMinOf[Pnls(trades)]],
              profit_factor |-> ProfitFactor(gross_profit, gross_loss),
              trades |-> trades,
              equity_curve |-> equity_curve]


(***************************************************************************)
(* Inputs of run_multi_symbol_backtest                                     *)
(***************************************************************************)
Symbols == {"AAA", "BBB"}

SymbolLists == UNION { [1..m -> Symbols] : m \in 0..MaxSymbols }

\* Per symbol: too few candles, a quiet series, and a series that trades.
BatchSeries ==
    { Series(MinCandles - 1, <<>>, Quiet),
      Series(MinCandles, <<>>, Quiet),
      Series(MinCandles, <<Kind(110, 110, 1000), Kind(99, 99, 1000)>>, Quiet) }

OhlcvMaps == UNION { [D -> BatchSeries] : D \in SUBSET Symbols }

(***************************************************************************)
(* State                                                                   *)
(***************************************************************************)
VARIABLES
    engine,         \* the BacktestEngine instance (self)
    call,           \* the caller: "none", "single", "pair" (two series), "multi",
                    \* "alone" (a single run after a batch)
    pc,             \* run_backtest: "idle", "loop", "done", "raised"
    symbol,         \* run_backtest's arguments ...
    ohlcv_data,
    ind,            \* ... and the indicator values computed from ohlcv_data
    i,              \* the loop index (0-based, as in the source)
    capital,        \* run_backtest's locals
    positions,
    closed_trades,
    equity_curve,
    result,         \* what run_backtest returned
    runs,           \* calls of run_backtest made by the single-run caller
    prev_result,    \* what the previous of those calls returned
    before,         \* the candles and the result of a call made before, on
                    \* candles that differ from the present ones
    mpc,            \* run_multi_symbol_backtest: "none", "iter", "returned"
    symbols,        \* its arguments
    ohlcv_map,
    next_sym,       \* position in symbols of the symbol to process next
    results,        \* its results dict
    given,          \* the arguments of a function called on its own ...
    returned        \* ... and what each function returned for them

vars == <<engine, call, pc, symbol, ohlcv_data, ind, i, capital, positions,
          closed_trades, equity_curve, result, runs, prev_result, before, mpc,
          symbols, ohlcv_map, next_sym, results, given, returned>>

multiVars == <<mpc, symbols, ohlcv_map, next_sym, results>>
argVars == <<symbol, ohlcv_data, ind>>
prevVars == <<prev_result, before>>
localVars == <<i, capital, positions, closed_trades, equity_curve>>
engineVars == <<engine, call, pc, argVars, localVars, result, runs, prevVars, multiVars>>
fnVars == <<given, returned>>

\* A frame of run_backtest in which no local has been assigned yet.
NoLocals ==
    /\ i' = -1
    /\ capital' = NoPrice
    /\ positions' = <<>>
    /\ closed_trades' = <<>>
    /\ equity_curve' = <<>>

Locals == [capital |-> capital, positions |-> positions,
           closed_trades |-> closed_trades, equity_curve |-> equity_curve]

\* No function has been called on its own.
NoGiven == [fn |-> "none"]
NoReturned ==
    [signal |-> NoResult, analysis |-> NoResult, results |-> NoResult,
     volume_trend |-> NoResult]

NoBefore == [data |-> <<>>, locals |-> <<>>]

\* No call has been made on the engine.
Idle ==
    /\ call = "none"
    /\ pc = "idle"
    /\ symbol = "None"
    /\ ohlcv_data = <<>>
    /\ ind = <<>>
    /\ i = -1
    /\ capital = NoPrice
    /\ positions = <<>>
    /\ closed_trades = <<>>
    /\ equity_curve = <<>>
    /\ result = NoResult
    /\ runs = 0
    /\ prev_result = NoResult
    /\ before = NoBefore
    /\ mpc = "none"
    /\ symbols = <<>>
    /\ ohlcv_map = <<>>
    /\ next_sym = 0
    /\ results = <<>>

Init ==
    /\ engine \in Engines
    /\ Idle
    /\ given = NoGiven
    /\ returned = NoReturned

(***************************************************************************)
(* run_backtest                                                            *)
(***************************************************************************)
\* A length check that also turns away a series of exactly MinCandles candles.
TooFewCandlesInclusive(data) == Len(data) <= MinCandles

\* "if len(ohlcv_data) < 50: raise ValueError(...)"
TooFewCandles(data) == Len(data) < MinCandles

\* An initialisation that keeps the closed trades of the frame before it.
InitialLocalsStale(self, st) ==
    [capital |-> self.initial_capital, positions |-> <<>>,
     closed_trades |-> st.closed_trades, equity_curve |-> <<self.initial_capital>>]

\* The locals as "Initialize state" leaves them.
InitialLocals(self, st) ==
    [capital |-> self.initial_capital, positions |-> <<>>,
     closed_trades |-> <<>>, equity_curve |-> <<self.initial_capital>>]

\* Entry of run_backtest(sym, series.data): the length check, then the
\* initialisation of the locals.
Enter(sym, series) ==
    /\ symbol' = sym
    /\ ohlcv_data' = series.data
    /\ ind' = series.ind
    /\ result' = NoResult
    /\ IF TooFewCandles(series.data)
       THEN /\ pc' = "raised"
            /\ NoLocals
       ELSE \E st \in {InitialLocals(engine, Locals)} :
                /\ pc' = "loop"
                /\ i' = min_lookback
                /\ capital' = st.capital
                /\ positions' = st.positions
                /\ closed_trades' = st.closed_trades
                /\ equity_curve' = st.equity_curve

CallRunBacktest ==
    /\ call = "none"
    /\ \E series \in SingleInputs :
         /\ call' = "single"
         /\ runs' = 1
         /\ Enter("TEST", series)
    /\ UNCHANGED <<fnVars, engine, prevVars, multiVars>>

\* One pass of "for i in range(min_lookback, len(ohlcv_data))".
LoopStep ==
    /\ pc = "loop"
    /\ i < Len(ohlcv_data)
    /\ \E candle \in {ohlcv_data[i + 1]}, indicator \in {IndicatorAt(ind, i)},
          volume_trend \in {VolumeTrendAt(ohlcv_data, i)} :
       \E checked \in {CheckedPositions(engine, positions, candle)} :
       \E st1 \in {ExitStage(engine, Locals, candle, checked)} :
       \E signal \in {SignalAt(engine, ohlcv_data, ind, i, volume_trend)} :
       \E st2 \in {EntryStage(engine, st1, candle, indicator, signal, volume_trend)} :
       \E st3 \in {TrackEquity(st2, candle.close)} :
           /\ capital' = st3.capital
           /\ positions' = st3.positions
           /\ closed_trades' = st3.closed_trades
           /\ equity_curve' = st3.equity_curve
    /\ i' = i + 1
    /\ UNCHANGED <<fnVars, engine, call, pc, argVars, result, runs, prevVars, multiVars>>

Timestamps(data) == [p \in 1..Len(data) |-> data[p].timestamp]

Return ==
    /\ pc = "loop"
    /\ i >= Len(ohlcv_data)
    /\ \E st \in {ForceClose(ohlcv_data, Locals)} :
           /\ capital' = st.capital
           /\ positions' = st.positions
           /\ closed_trades' = st.closed_trades
           /\ equity_curve' = st.equity_curve
           /\ result' = _calculate_results(engine, symbol, st.closed_trades,
                                           st.equity_curve, Timestamps(ohlcv_data),
                                           min_lookback)
    /\ pc' = "done"
    /\ UNCHANGED <<fnVars, engine, call, argVars, i, runs, prevVars, multiVars>>

\* The caller calls run_backtest again, on the same engine and candles.
RunAgain ==
    /\ call = "single"
    /\ pc \in {"done", "raised"}
    /\ runs < MaxRuns
    /\ runs' = runs + 1
    /\ prev_result' = result
    /\ Enter(symbol, [data |-> ohlcv_data, ind |-> ind])
    /\ UNCHANGED <<fnVars, engine, call, before, multiVars>>

\* The series of MinCandles candles that have the candles of data up to the
\* first event and other candles after it.
OtherSeries(data) ==
    { o \in SingleInputs :
        /\ Len(o.data) = MinCandles
        /\ o.data # data
        /\ SubSeq(o.data, 1, min_lookback + 1) = SubSeq(data, 1, min_lookback + 1) }

\* The caller calls run_backtest again, on the same engine, with candles
\* that are the same up to some candle and differ after it.
RunOther ==
    /\ call = "single"
    /\ pc = "done"
    /\ runs = 1
    /\ Len(ohlcv_data) = MinCandles
    /\ \E other \in OtherSeries(ohlcv_data) :
         /\ before' = [data |-> ohlcv_data, locals |-> Locals]
         /\ call' = "pair"
         /\ Enter(symbol, other)
    /\ UNCHANGED <<fnVars, engine, runs, prev_result, multiVars>>

(***************************************************************************)
(* run_multi_symbol_backtest                                               *)
(***************************************************************************)
CallMulti ==
    /\ call = "none"
    /\ \E syms \in SymbolLists, map \in OhlcvMaps :
         /\ symbols' = syms
         /\ ohlcv_map' = map
    /\ call' = "multi"
    /\ mpc' = "iter"
    /\ next_sym' = 1
    /\ results' = <<>>
    /\ UNCHANGED <<fnVars, engine, pc, argVars, localVars, result, runs, prevVars>>

\* "if symbol not in ohlcv_map: continue"
MultiSkip ==
    /\ mpc = "iter" /\ pc = "idle"
    /\ next_sym <= Len(symbols)
    /\ symbols[next_sym] \notin DOMAIN ohlcv_map
    /\ next_sym' = next_sym + 1
    /\ UNCHANGED <<fnVars, engine, call, pc, argVars, localVars, result, runs,
                   prevVars, mpc, symbols, ohlcv_map, results>>

\* "result = self.run_backtest(symbol=symbol, ohlcv_data=ohlcv_map[symbol], ...)"
MultiRun ==
    /\ mpc = "iter" /\ pc = "idle"
    /\ next_sym <= Len(symbols)
    /\ symbols[next_sym] \in DOMAIN ohlcv_map
    /\ Enter(symbols[next_sym], ohlcv_map[symbols[next_sym]])
    /\ UNCHANGED <<fnVars, engine, call, runs, prevVars, multiVars>>

\* An except clause that gives up on the rest of the batch.
OnRaiseAbort ==
    /\ next_sym' = Len(symbols) + 1
    /\ UNCHANGED <<mpc, results>>

\* What the except clause does when run_backtest raised.
OnRaise ==
    /\ next_sym' = next_sym + 1
    /\ UNCHANGED <<mpc, results>>

\* A store that makes every entry of the map the latest result
MultiStoreShared ==
    /\ mpc = "iter" /\ pc = "done"
    /\ results' = [s \in DOMAIN results \cup {symbol} |-> result]
    /\ next_sym' = next_sym + 1
    /\ pc' = "idle"
    /\ NoLocals
    /\ UNCHANGED <<fnVars, engine, call, argVars, result, runs, prevVars,
                   mpc, symbols, ohlcv_map>>

\* "results[symbol] = result"
MultiStore ==
    /\ mpc = "iter" /\ pc = "done"
    /\ results' = [s \in DOMAIN results \cup {symbol} |->
                     IF s = symbol THEN result ELSE results[s]]
    /\ next_sym' = next_sym + 1
    /\ pc' = "idle"
    /\ NoLocals
    /\ UNCHANGED <<fnVars, engine, call, argVars, result, runs, prevVars,
                   mpc, symbols, ohlcv_map>>

\* "except Exception as e: ... continue"
MultiCatch ==
    /\ mpc = "iter" /\ pc = "raised"
    /\ OnRaise
    /\ pc' = "idle"
    /\ UNCHANGED <<fnVars, engine, call, argVars, localVars, result, runs, prevVars,
                   symbols, ohlcv_map>>

\* "return results"
MultiReturn ==
    /\ mpc = "iter" /\ pc = "idle"
    /\ next_sym > Len(symbols)
    /\ mpc' = "returned"
    /\ UNCHANGED <<fnVars, engine, call, pc, argVars, localVars, result, runs,
                   prevVars, symbols, ohlcv_map, next_sym, results>>

\* After the batch has returned, the caller calls run_backtest on its own
\* for one of the symbols of the batch that has candles, on the same engine.
RunAlone ==
    /\ call = "multi"
    /\ mpc = "returned"
    /\ \E k \in 1..Len(symbols) :
         /\ symbols[k] \in DOMAIN ohlcv_map
         /\ Enter(symbols[k], ohlcv_map[symbols[k]])
    /\ call' = "alone"
    /\ UNCHANGED <<fnVars, engine, runs, prevVars, multiVars>>

Next ==
    \/ CallRunBacktest
    \/ LoopStep
    \/ Return
    \/ RunAgain
    \/ RunOther
    \/ CallMulti
    \/ MultiSkip
    \/ MultiRun
    \/ MultiStore
    \/ MultiCatch
    \/ MultiReturn
    \/ RunAlone

Spec == Init /\ [][Next]_vars

(***************************************************************************)
(* The signal rules called on their own: _generate_signal on an engine and *)
(* _fallback_analysis, on the same indicator values                        *)
(***************************************************************************)
\* The engines differ in their confidence threshold only.
SignalEngines ==
    { BacktestEngine(R(1000), R(100), t, 3, Frac(10, 100), Frac(20, 100)) :
        t \in {0, 70, 95} }

RsiInputs == { R(0), R(25), R(30), R(35), R(40), R(50), R(70), R(71), R(100) }

MacdInputs ==
    { [macd |-> m, signal |-> sg, histogram |-> m - sg] : m, sg \in {-1, 0, 1} }

VolumeTrends == { "INCREASING", "STABLE", "DECREASING" }

\* Bollinger lists of one value: bands of width 2 * 5 and of width 0 about 100
BBInput(variance) ==
    [upper  |-> <<Band(R(100), 2, variance)>>,
     middle |-> <<R(100)>>,
     lower  |-> <<Band(R(100), -2, variance)>>]

SignalInputs ==
    [fn : {"signal"}, current_price : {R(80), R(100), R(120)}, rsi : RsiInputs,
     macd : MacdInputs, volume_trend : VolumeTrends,
     bb_data : {BBInput(R(25)), BBInput(R(0))}, index : {0, 1}]

\* A closed trade of 100 USD bought at 1000: sold at 1000 it loses the fees,
\* sold at 1006 it breaks even, sold at 1100 it wins.
ClosedTrade(exit_price) ==
    _calculate_trade_pnl(
        [BacktestTrade(TimestampOf(min_lookback), R(1000), R(100), 75,
                       [rsi |-> R(25), macd_histogram |-> 0, volume_trend |-> "STABLE"])
            EXCEPT !.exit_price = R(exit_price),
                   !.exit_timestamp = TimestampOf(min_lookback + 1)])

TradeInputs == { ClosedTrade(1000), ClosedTrade(1006), ClosedTrade(1100) }

TradeLists == UNION { [1..n -> TradeInputs] : n \in 0..MaxTrades }

\* run_backtest's equity curve starts with the initial capital; any other
\* list of at least one number can be given to _calculate_results
EquityCurves == UNION { [1..n -> {R(0), R(1000), R(1100)}] : n \in 1..MaxCurve }

ResultsInputs ==
    [fn : {"results"}, trades : TradeLists, equity_curve : EquityCurves]

\* Curves with a fall, a new peak and a second fall, beside one winning trade
DrawdownCurves == [1..DrawdownLen -> {R(400), R(1000), R(2000)}]

DrawdownInputs ==
    [fn : {"results"}, trades : {<<ClosedTrade(1100)>>}, equity_curve : DrawdownCurves]

\* Lists of volumes: one older and one recent window of VolumePeriod values
\* after a run of large volumes, cut to its last n values.  A window is six
\* times one value and one other value.
VolumeWindows(older, recent) ==
    [p \in 1..(2 * VolumePeriod) |->
        IF p = 1 THEN older[1]
        ELSE IF p <= VolumePeriod THEN older[2]
        ELSE IF p < 2 * VolumePeriod THEN recent[1]
        ELSE recent[2]]

OlderWindows == { <<1000, 1000>>, <<0, 0>>, <<300, 1000>> }

RecentWindows ==
    { <<1000, 1000>>, <<1100, 1100>>, <<1101, 1101>>, <<900, 900>>, <<899, 899>>,
      <<1000, 1700>>, <<1000, 1707>>, <<0, 0>>, <<2000, 2000>> }

LastOf(s, n) == SubSeq(s, Len(s) - n + 1, Len(s))

VolumeLists ==
    { LastOf([p \in 1..(MaxVolumes - 2 * VolumePeriod) |-> 5000]
                \o VolumeWindows(older, recent), n) :
        older \in OlderWindows, recent \in RecentWindows, n \in 0..MaxVolumes }

VolumeInputs == [fn : {"volume"}, volumes : VolumeLists]

\* The candles of a run up to the one the loop is at (index i) and one
\* after it: the two windows lie just before index i.
LoopCandles(idx, older, recent, current) ==
    [p \in 1..(idx + 2) |->
        Candle(p - 1,
               Kind(Quiet.close, Quiet.low,
                    IF p <= idx - 2 * VolumePeriod THEN 5000
                    ELSE IF p <= idx
                    THEN VolumeWindows(older, recent)[p - (idx - 2 * VolumePeriod)]
                    ELSE current))]

LoopVolumeInputs ==
    { [fn |-> "loop_volume", i |-> idx,
       ohlcv_data |-> LoopCandles(idx, older, recent, current)] :
        idx \in {min_lookback, min_lookback + 1}, older \in OlderWindows,
        recent \in RecentWindows, current \in {1000, 50000} }

FnInit ==
    /\ engine \in SignalEngines
    /\ Idle
    /\ given \in SignalInputs \cup ResultsInputs \cup DrawdownInputs
                   \cup VolumeInputs \cup LoopVolumeInputs
    /\ returned = NoReturned

\* signal = self._generate_signal(...)
GenerateSignal ==
    /\ given.fn = "signal"
    /\ returned.signal = NoResult
    /\ returned' = [returned EXCEPT !.signal =
            _generate_signal(engine, given.current_price, given.rsi, given.macd,
                             given.volume_trend, given.bb_data, given.index)]
    /\ UNCHANGED <<given, engineVars>>

\* self._fallback_analysis(symbol, token_data, indicators)
FallbackAnalysis ==
    /\ given.fn = "signal"
    /\ returned.analysis = NoResult
    /\ returned' = [returned EXCEPT !.analysis =
            _fallback_analysis([rsi |-> given.rsi, macd |-> given.macd,
                                volume_trend |-> given.volume_trend])]
    /\ UNCHANGED <<given, engineVars>>

\* self._calculate_results(symbol, trades, equity_curve, timestamps, min_lookback)
CalculateResults ==
    /\ given.fn = "results"
    /\ returned.results = NoResult
    /\ returned' = [returned EXCEPT !.results =
            _calculate_results(engine, "TEST", given.trades, given.equity_curve,
                               [p \in 1..MinCandles |-> TimestampOf(p - 1)],
                               min_lookback)]
    /\ UNCHANGED <<given, engineVars>>

\* calculate_volume_trend(volumes)
CalculateVolumeTrend ==
    /\ given.fn = "volume"
    /\ returned.volume_trend = NoResult
    /\ returned' = [returned EXCEPT !.volume_trend =
            [value |-> calculate_volume_trend(given.volumes, VolumePeriod)]]
    /\ UNCHANGED <<given, engineVars>>

\* "volume_trend = calculate_volume_trend(volumes[max(0, i-14):i])"
LoopVolumeTrend ==
    /\ given.fn = "loop_volume"
    /\ returned.volume_trend = NoResult
    /\ returned' = [returned EXCEPT !.volume_trend =
            [value |-> VolumeTrendAt(given.ohlcv_data, given.i)]]
    /\ UNCHANGED <<given, engineVars>>

FnNext ==
    \/ GenerateSignal
    \/ FallbackAnalysis
    \/ CalculateResults
    \/ CalculateVolumeTrend
    \/ LoopVolumeTrend

FnSpec == FnInit /\ [][FnNext]_vars

(***************************************************************************)
(* Properties                                                              *)
(***************************************************************************)
\* The symbols of the batch that run_multi_symbol_backtest is done with.
Processed == { symbols[k] : k \in 1..(next_sym - 1) }

\* C1: run_backtest with fewer than 50 candles raises before any position,
\* cash or equity state exists and returns no result; with 50 candles (or
\* more) it does not raise, and when it returns, it returns a result.
C1_InsufficientData ==
    /\ pc = "raised" =>
          /\ Len(ohlcv_data) < 50
          /\ capital = NoPrice
          /\ positions = <<>>
          /\ closed_trades = <<>>
          /\ equity_curve = <<>>
          /\ result = NoResult
    /\ pc \in {"loop", "done"} =>
          /\ Len(ohlcv_data) >= 50
          /\ capital # NoPrice
          /\ equity_curve # <<>>
    /\ pc = "done" => result # NoResult /\ result.symbol = symbol

\* A batch in which a series of exactly 50 candles has returned a result and
\* a series of 49 candles has just raised.
C1_Witness ==
    /\ mpc = "iter"
    /\ pc = "raised"
    /\ Len(ohlcv_data) = 49
    /\ \E s \in DOMAIN results :
          /\ Len(ohlcv_map[s].data) = 50
          /\ results[s].symbol = s

\* C2: run_multi_symbol_backtest goes through the whole list whatever a
\* symbol's run does: the map holds exactly the symbols gone through that
\* have candles and whose run did not raise (here: at least 50 candles),
\* each with its own result, and the call returns only after the last symbol.
C2_BatchResilience ==
    mpc \in {"iter", "returned"} =>
      /\ DOMAIN results =
            { s \in Processed : s \in DOMAIN ohlcv_map
                                 /\ Len(ohlcv_map[s].data) >= 50 }
      /\ \A s \in DOMAIN results : results[s].symbol = s
      /\ mpc = "returned" => next_sym = Len(symbols) + 1

\* A returned batch whose first symbol raised and whose second is in the map.
C2_Witness ==
    /\ mpc = "returned"
    /\ Len(symbols) = 2
    /\ symbols[1] \in DOMAIN ohlcv_map
    /\ Len(ohlcv_map[symbols[1]].data) < 50
    /\ DOMAIN results = {symbols[2]}

\* A trade is known by the candle it was opened on (one entry per candle).
EntryTimes(trades) == { trades[j].entry_timestamp : j \in 1..Len(trades) }

IsClosed(t) == t.exit_price # NoPrice /\ t.exit_timestamp # NoTimestamp

IsOpen(t) == t.exit_price = NoPrice /\ t.exit_timestamp = NoTimestamp

\* The trades a step appended to closed_trades.
NewlyClosed == SubSeq(closed_trades', Len(closed_trades) + 1, Len(closed_trades'))

C3_State ==
    pc \in {"loop", "done"} =>
      /\ \A j \in 1..Len(closed_trades) : IsClosed(closed_trades[j])
      /\ Cardinality(EntryTimes(closed_trades)) = Len(closed_trades)
      /\ pc = "loop" =>
            /\ \A j \in 1..Len(positions) : IsOpen(positions[j])
            /\ EntryTimes(positions) \cap EntryTimes(closed_trades) = {}
      /\ pc = "done" =>
            /\ \A j \in 1..Len(positions) : IsClosed(positions[j])
            /\ EntryTimes(positions) \subseteq EntryTimes(closed_trades)
            /\ result.trades = closed_trades
            /\ result.total_trades = Len(closed_trades)

C3_Step ==
    pc = "loop" /\ pc' \in {"loop", "done"} =>
      \* a closed trade stays as it is, where it is
      /\ SubSeq(closed_trades', 1, Len(closed_trades)) = closed_trades
      \* an open position stays open, untouched, or is closed by this step
      /\ \A j \in 1..Len(positions) :
            \/ /\ \E k \in 1..Len(positions') : positions'[k] = positions[j]
               /\ positions[j].entry_timestamp \notin EntryTimes(NewlyClosed)
            \/ /\ \A k \in 1..Len(positions') : positions'[k] # positions[j]
               /\ Cardinality({ k \in 1..Len(NewlyClosed) :
                      /\ NewlyClosed[k].entry_timestamp = positions[j].entry_timestamp
                      /\ NewlyClosed[k].entry_price = positions[j].entry_price
                      /\ NewlyClosed[k].position_size = positions[j].position_size }) = 1
      \* only what was open is closed
      /\ EntryTimes(NewlyClosed) \subseteq EntryTimes(positions)

\* C3: every position opened during a run is closed exactly once: it goes
\* from the open positions to the closed trades in one step, with its exit
\* price and exit timestamp set, is in result.trades exactly once, is never
\* open again, and none is open when the result is returned.
C3_ClosedExactlyOnce == [][C3_State' /\ C3_Step]_vars

\* A returned run with a trade closed by an exit rule during the loop and
\* another closed by the forced close on the last candle.
C3_Witness ==
    /\ pc = "done"
    /\ \E j, k \in 1..Len(result.trades) :
          /\ result.trades[j].exit_timestamp < ohlcv_data[Len(ohlcv_data)].timestamp
          /\ result.trades[k].exit_timestamp = ohlcv_data[Len(ohlcv_data)].timestamp
          /\ result.trades[k].entry_timestamp > result.trades[j].entry_timestamp

\* Every trade the program holds as closed.
AllClosedTrades ==
    { closed_trades[j] : j \in 1..Len(closed_trades) }
      \cup (IF result = NoResult THEN {}
            ELSE { result.trades[j] : j \in 1..Len(result.trades) })
      \cup UNION { { results[s].trades[j] : j \in 1..Len(results[s].trades) } :
                   s \in DOMAIN results }

\* C4: every closed trade has fees = positionSize * 0.003 * 2,
\* pnl = (exitPrice - entryPrice) / entryPrice * positionSize - fees and
\* pnlPercent = pnl / positionSize * 100, whichever rule closed it.
C4_TradePnl ==
    \A t \in AllClosedTrades :
      /\ t.fees = RMul[RMul[t.position_size, Frac(3, 1000)], R(2)]
      /\ t.pnl = RSub[RMul[RDiv[RSub[t.exit_price, t.entry_price], t.entry_price],
                            t.position_size],
                       t.fees]
      /\ t.pnl_percent = RMul[RDiv[t.pnl, t.position_size], R(100)]

\* A returned run with a trade stopped out at 90% of its entry price, for a
\* loss of 10 + 0.6 on a position of 100, and a trade that took its profit at
\* 120%, for a gain of 20 - 0.6.
C4_Witness ==
    /\ pc = "done"
    /\ \E t \in AllClosedTrades :
          /\ t.exit_price = RMul[t.entry_price, Frac(9, 10)]
          /\ t.position_size = R(100)
          /\ t.pnl = Frac(-106, 10)
    /\ \E t \in AllClosedTrades :
          /\ t.exit_price = RMul[t.entry_price, Frac(12, 10)]
          /\ t.position_size = R(100)
          /\ t.pnl = Frac(194, 10)

\* The candle a loop step is about to process, and a position's return at
\* its close.
CurrentCandle == ohlcv_data[i + 1]

PnlPct(pos, candle) == RDiv[RSub[candle.close, pos.entry_price], pos.entry_price]

CandleAt(timestamp) ==
    CHOOSE c \in { ohlcv_data[p] : p \in 1..Len(ohlcv_data) } : c.timestamp = timestamp

\* The step closes pos on the current candle at exit_price.
ClosedNowAt(pos, exit_price) ==
    /\ pos.entry_timestamp \notin EntryTimes(positions')
    /\ \E k \in 1..Len(NewlyClosed) :
          /\ NewlyClosed[k].entry_timestamp = pos.entry_timestamp
          /\ NewlyClosed[k].exit_price = exit_price
          /\ NewlyClosed[k].exit_timestamp = CurrentCandle.timestamp

C5_Step ==
    pc = "loop" /\ i' = i + 1 =>
      \A j \in 1..Len(positions) :
        RLe[PnlPct(positions[j], CurrentCandle), RNeg[engine.stop_loss_pct]] =>
          /\ ClosedNowAt(positions[j],
                         RMul[positions[j].entry_price,
                              RSub[R(1), engine.stop_loss_pct]])
          /\ \A k \in 1..Len(NewlyClosed) :
                NewlyClosed[k].entry_timestamp = positions[j].entry_timestamp =>
                  RLe[NewlyClosed[k].pnl, R(0)]

\* C5: an open position that sees a candle whose close puts its return at or
\* under -stopLossPct is closed on that candle at entryPrice * (1 - stopLossPct),
\* whatever the close is, and the closed trade is not a winner.
C5_StopLossExit == [][C5_Step]_vars

\* A trade stopped out at 90% of its entry price on a candle that closed
\* lower than that.
C5_Witness ==
    /\ pc \in {"loop", "done"}
    /\ \E j \in 1..Len(closed_trades) :
          /\ closed_trades[j].exit_price =
                RMul[closed_trades[j].entry_price, Frac(9, 10)]
          /\ RLt[CandleAt(closed_trades[j].exit_timestamp).close,
                 closed_trades[j].exit_price]
          /\ RLt[closed_trades[j].pnl, R(0)]

C6_Step ==
    pc = "loop" /\ i' = i + 1 =>
      \A j \in 1..Len(positions) :
        (/\ RGe[PnlPct(positions[j], CurrentCandle), engine.take_profit_pct]
         /\ ~RLe[PnlPct(positions[j], CurrentCandle), RNeg[engine.stop_loss_pct]]) =>
          ClosedNowAt(positions[j],
                      RMul[positions[j].entry_price,
                           RAdd[R(1), engine.take_profit_pct]])

\* C6: an open position that sees a candle whose close puts its return at or
\* over takeProfitPct (the stop-loss not firing) is closed on that candle at
\* entryPrice * (1 + takeProfitPct), whatever the close is.
C6_TakeProfitExit == [][C6_Step]_vars

\* A trade that took its profit at 120% of its entry price on a candle that
\* closed higher than that.
C6_Witness ==
    /\ pc \in {"loop", "done"}
    /\ \E j \in 1..Len(closed_trades) :
          /\ closed_trades[j].exit_price =
                RMul[closed_trades[j].entry_price, Frac(12, 10)]
          /\ RGt[CandleAt(closed_trades[j].exit_timestamp).close,
                 closed_trades[j].exit_price]

\* The open positions, and those of them opened on the candle just processed.
OpenPositions == { j \in 1..Len(positions) : IsOpen(positions[j]) }

OpenedOnLastCandle ==
    { j \in OpenPositions : i > min_lookback
                             /\ positions[j].entry_timestamp = ohlcv_data[i].timestamp }

\* C7: at most maxPositions positions are open at any time, and a position
\* is opened on a candle only if the positions left open by that candle's
\* exits are fewer than maxPositions.
C7_MaxPositions ==
    /\ Cardinality(OpenPositions) <= engine.max_positions
    /\ pc = "loop" =>
          \A j \in OpenedOnLastCandle :
            Cardinality(OpenPositions \ {j}) < engine.max_positions

\* With maxPositions = 1 and a position open, the candle just processed gave
\* a BUY signal over the threshold and no position was opened on it.
C7_Witness ==
    /\ pc = "loop"
    /\ i > min_lookback
    /\ engine.max_positions = 1
    /\ Cardinality(OpenPositions) = 1
    /\ OpenedOnLastCandle = {}
    /\ SignalAt(engine, ohlcv_data, ind, i - 1,
                VolumeTrendAt(ohlcv_data, i - 1)).action = "BUY"

C8_State ==
    /\ pc = "loop" =>
          /\ equity_curve[1] = engine.initial_capital
          /\ Len(equity_curve) = (i - 30) + 1
    /\ pc = "done" =>
          /\ result.equity_curve = equity_curve
          /\ result.equity_curve[1] = engine.initial_capital
          /\ Len(result.equity_curve) = (Len(ohlcv_data) - 30) + 1

C8_Step ==
    pc = "loop" /\ pc' \in {"loop", "done"} =>
      /\ SubSeq(equity_curve', 1, Len(equity_curve)) = equity_curve
      /\ Len(equity_curve') = Len(equity_curve) + (i' - i)

\* C8: the equity curve starts with initialCapital, is only appended to, one
\* point per processed candle, and ends with (len(candles) - 30) + 1 points,
\* however many trades were opened or closed.
C8_EquityCurve == [][C8_State' /\ C8_Step]_vars

\* A returned run over 51 candles that traded, with its 22 equity points.
C8_Witness ==
    /\ pc = "done"
    /\ Len(ohlcv_data) = 51
    /\ result.total_trades >= 2
    /\ Len(result.equity_curve) = 22

\* C9: every returned result has 0 <= profitFactor <= 999.99.
C9_ProfitFactorBound ==
    pc = "done" =>
      /\ RGe[result.profit_factor, R(0)]
      /\ RLe[result.profit_factor, Frac(99999, 100)]

\* C10: a second run of run_backtest on the same engine, with the same
\* candles, returns the same result as the first: same trades, same equity
\* curve, same statistics (and raises if the first raised).
C10_Determinism ==
    runs >= 2 =>
      /\ pc = "done" => result = prev_result
      /\ pc = "raised" => prev_result = NoResult

\* A second run that traded and returned what the first run returned.
C10_Witness ==
    /\ runs = 2
    /\ pc = "done"
    /\ result.total_trades >= 2
    /\ prev_result # NoResult
    /\ result.trades = prev_result.trades
    /\ result.equity_curve = prev_result.equity_curve

\* C11: a run that closes no trade returns the all-zero result: no trades,
\* every count, rate, total, drawdown, ratio, average and extreme 0, and
\* finalCapital = initialCapital.
C11_ZeroTradeResult ==
    pc = "done" /\ closed_trades = <<>> =>
      /\ result.trades = <<>>
      /\ result.total_trades = 0
      /\ result.winning_trades = 0
      /\ result.losing_trades = 0
      /\ \A f \in {"win_rate", "total_pnl", "total_pnl_percent", "max_drawdown",
                    "max_drawdown_percent", "avg_trade_pnl",
                    "avg_winning_trade", "avg_losing_trade", "largest_winner",
                    "largest_loser", "profit_factor"} : result[f] = R(0)
      /\ result.sharpe_ratio = ZeroSharpe
      /\ result.initial_capital = engine.initial_capital
      /\ result.final_capital = engine.initial_capital

\* A returned run over candles none of which gave a signal.
C11_Witness ==
    /\ pc = "done"
    /\ call = "single"
    /\ closed_trades = <<>>
    /\ result.total_trades = 0
    /\ result.final_capital = R(1000)
    /\ Len(result.equity_curve) = 21


\* C12: on a series whose closes are all the same, the default engine
\* never opens a position, whatever the volumes: no position is open during
\* the run, no trade is closed, and the result reports 0 trades, the initial
\* capital as final capital and a win rate of 0.
FlatCloses(data) == \A p \in 1..Len(data) : data[p].close = data[1].close

C12_FlatSeriesNeverTrades ==
    (pc \in {"loop", "done"} /\ engine = DefaultEngine /\ FlatCloses(ohlcv_data)) =>
        /\ positions = <<>>
        /\ closed_trades = <<>>
        /\ pc = "done" =>
              /\ result.total_trades = 0
              /\ result.final_capital = engine.initial_capital
              /\ result.win_rate = R(0)

\* C13: an engine whose configuration is out of range (a position size
\* that is not positive, a confidence threshold outside 0..100) never
\* enters the candle loop and never returns a result.
ValidConfiguration(self) ==
    /\ RGt[self.initial_capital, R(0)]
    /\ RGt[self.position_size, R(0)]
    /\ self.confidence_threshold \in 0..100
    /\ self.max_positions >= 1

C13_InvalidConfigurationRejected ==
    ~ValidConfiguration(engine) => (pc \notin {"loop", "done"} /\ result = NoResult)

\* C14: on the same RSI, MACD and volume trend, _generate_signal returns
\* BUY exactly when _fallback_analysis decides BUY, and with the same
\* confidence (stated for the inputs on which the Bollinger rule, which
\* only the signal generator has, does not fire).
BollingerSilent ==
    \/ given.index >= Len(given.bb_data.lower)
    \/ /\ ~LeBand(given.current_price, given.bb_data.lower[given.index + 1])
       /\ ~GeBand(given.current_price, given.bb_data.upper[given.index + 1])

C14_SignalMatchesFallback ==
    (/\ given.fn = "signal"
     /\ returned.signal # NoResult
     /\ returned.analysis # NoResult
     /\ BollingerSilent) =>
        /\ (returned.signal.action = "BUY") <=> (returned.analysis.decision = "BUY")
        /\ R(returned.signal.confidence) = returned.analysis.confidence

\* C15: the confidence _generate_signal returns lies in [20, 90], and the
\* action it returns is BUY only if that confidence is at least the
\* engine's threshold: under the threshold the action is HOLD.
C15_ConfidenceBounds ==
    (given.fn = "signal" /\ returned.signal # NoResult) =>
        /\ returned.signal.confidence >= MinConfidence
        /\ returned.signal.confidence <= MaxConfidence
        /\ returned.signal.action \in {"BUY", "HOLD"}
        /\ returned.signal.action = "BUY" =>
              returned.signal.confidence >= engine.confidence_threshold
        /\ returned.signal.confidence < engine.confidence_threshold =>
              returned.signal.action = "HOLD"

\* Every buying rule fired (the sum is 110, clamped to 90) on an engine whose
\* threshold is 95: the action is HOLD.
C15_Witness ==
    /\ given.fn = "signal"
    /\ returned.signal # NoResult
    /\ engine.confidence_threshold = 95
    /\ Len(returned.signal.reasons) = 4
    /\ returned.signal.reasons[1] = "RSI oversold"
    /\ returned.signal.reasons[2] = "MACD bullish"
    /\ returned.signal.reasons[3] = "Volume increasing"
    /\ returned.signal.reasons[4] = "Price at lower Bollinger Band"
    /\ returned.signal.confidence = MaxConfidence
    /\ returned.signal.action = "HOLD"

\* C16: when the loop is over, every position still open is closed at the
\* last close less the slippage, with the last candle's timestamp as its
\* exit timestamp, and is in result.trades with its pnl computed from that
\* exit price.
LastCandle == ohlcv_data[Len(ohlcv_data)]

ForcedExitPrice == RMul[LastCandle.close, RSub[R(1), SLIPPAGE]]

NetPnl(t) ==
    RSub[RMul[t.position_size,
              RDiv[RSub[t.exit_price, t.entry_price], t.entry_price]],
         RMul[RMul[t.position_size, TRADING_FEE], R(2)]]

C16_Step ==
    (pc = "loop" /\ pc' = "done") =>
        \A j \in 1..Len(positions) :
            \E k \in 1..Len(result'.trades) :
                /\ result'.trades[k].entry_timestamp = positions[j].entry_timestamp
                /\ result'.trades[k].entry_price = positions[j].entry_price
                /\ result'.trades[k].position_size = positions[j].position_size
                /\ result'.trades[k].exit_price = ForcedExitPrice
                /\ result'.trades[k].exit_timestamp = LastCandle.timestamp
                /\ result'.trades[k].pnl = NetPnl(result'.trades[k])

C16_ForcedClose == [][C16_Step]_vars

\* A run that has returned with two trades: one closed by an exit rule
\* during the loop, one closed by force at the end.
C16_Witness ==
    /\ pc = "done"
    /\ Len(result.trades) = 2
    /\ result.trades[1].exit_timestamp < LastCandle.timestamp
    /\ result.trades[2].exit_timestamp = LastCandle.timestamp
    /\ result.trades[2].exit_price = ForcedExitPrice
    /\ result.trades[2].entry_timestamp < LastCandle.timestamp
    /\ result.trades[2].pnl # R(0)

\* C17 (as the claim has it): in every result total_trades is the number
\* of trades and the sum of winning_trades and losing_trades, the winning
\* trades are those of pnl > 0 (pnl = 0 counts as losing), and win_rate is
\* exactly winning_trades / total_trades * 100, within [0, 100].
Winners(trades) == { j \in 1..Len(trades) : trades[j].pnl[1] > 0 }

Returned == given.fn = "results" /\ returned.results \notin {NoResult, RaisedZeroDivision}

CountsAgree(res) ==
    /\ res.total_trades = Len(res.trades)
    /\ res.total_trades = res.winning_trades + res.losing_trades
    /\ res.winning_trades = Cardinality(Winners(res.trades))
    /\ RGe[res.win_rate, R(0)] /\ RLe[res.win_rate, R(100)]

C17_WinRateExact ==
    Returned =>
        /\ CountsAgree(returned.results)
        /\ returned.results.total_trades > 0 =>
              returned.results.win_rate =
                  Frac(100 * returned.results.winning_trades,
                       returned.results.total_trades)

\* C17 (amended): the same, win_rate being that quotient rounded to two
\* decimals, and 0 for a result without trades.
C17_TradeCounts ==
    Returned =>
        /\ CountsAgree(returned.results)
        /\ returned.results.win_rate =
              IF returned.results.total_trades > 0
              THEN Round2[Frac(100 * returned.results.winning_trades,
                               returned.results.total_trades)]
              ELSE R(0)

\* A result over a winner, a loser and a trade that broke even: one
\* winning trade and two losing ones, win_rate 33.33.
C17_Witness ==
    /\ Returned
    /\ returned.results.total_trades = 3
    /\ \E j \in 1..3 : returned.results.trades[j].pnl = R(0)
    /\ \E j \in 1..3 : returned.results.trades[j].pnl[1] < 0
    /\ returned.results.winning_trades = 1
    /\ returned.results.losing_trades = 2
    /\ returned.results.win_rate = Frac(3333, 100)

\* C18: _calculate_results does not raise on a zero divisor, whatever the
\* trades and the equity curve: win rate, average winning and losing
\* trade, profit factor, drawdown percent and Sharpe ratio are numbers, and
\* each is the stated default where its divisor would be zero.
Finite(x) == x \in Rat /\ x[2] > 0

ConstantCurve(curve) == \A k \in 1..Len(curve) : curve[k] = curve[1]

C18_DivisionGuarded ==
    (given.fn = "results" /\ returned.results # NoResult) =>
        /\ returned.results # RaisedZeroDivision
        /\ Finite(returned.results.win_rate)
        /\ Finite(returned.results.avg_winning_trade)
        /\ Finite(returned.results.avg_losing_trade)
        /\ Finite(returned.results.avg_trade_pnl)
        /\ Finite(returned.results.profit_factor)
        /\ Finite(returned.results.max_drawdown_percent)
        /\ \/ returned.results.sharpe_ratio = ZeroSharpe
           \/ /\ returned.results.sharpe_ratio = Annualised(Returns(given.equity_curve))
              /\ \A k \in 1..Len(returned.results.sharpe_ratio.returns) :
                    Finite(returned.results.sharpe_ratio.returns[k])
              /\ \E k, l \in 1..Len(returned.results.sharpe_ratio.returns) :
                    returned.results.sharpe_ratio.returns[k]
                        # returned.results.sharpe_ratio.returns[l]
        /\ returned.results.winning_trades = 0 =>
              returned.results.avg_winning_trade = R(0)
        /\ returned.results.losing_trades = 0 =>
              returned.results.avg_losing_trade = R(0)
        /\ (returned.results.total_trades > 0 /\ returned.results.losing_trades = 0) =>
              returned.results.profit_factor = PROFIT_FACTOR_INF
        /\ returned.results.total_trades = 0 =>
              /\ returned.results.win_rate = R(0)
              /\ returned.results.profit_factor = R(0)
        /\ ConstantCurve(given.equity_curve) =>
              /\ returned.results.sharpe_ratio = ZeroSharpe
              /\ returned.results.max_drawdown_percent = R(0)

\* Results over winners only on an equity curve that is 0 throughout (a
\* zero peak), and over losers only on a curve with a point at 0.
C18_Witness ==
    /\ given.fn = "results" /\ returned.results # NoResult
    /\ given.equity_curve = <<R(0), R(0), R(0)>>
    /\ Len(given.trades) = 2
    /\ returned.results.winning_trades = 2
    /\ returned.results.profit_factor = PROFIT_FACTOR_INF
    /\ returned.results.avg_losing_trade = R(0)
    /\ returned.results.max_drawdown_percent = R(0)


(***************************************************************************)
(* C19: exits come before entries on the same candle                       *)
(***************************************************************************)
\* The positions a step opened: those entered on the candle it processed.
OpenedNow ==
    { k \in 1..Len(positions') :
        positions'[k].entry_timestamp = CurrentCandle.timestamp }

\* What the candle's exits leave: the open count and the capital.
LeftOpen == Len(positions) - Len(NewlyClosed)

CapitalLeft ==
    RAdd[capital, RSum[[k \in 1..Len(NewlyClosed) |-> NewlyClosed[k].pnl]]]

\* The candle asks for an entry: a BUY at or over the threshold, and a trade
\* size of at least the minimum from the capital the exits left.
EntryWanted ==
    LET signal == SignalAt(engine, ohlcv_data, ind, i, VolumeTrendAt(ohlcv_data, i))
    IN  /\ signal.action = "BUY"
        /\ signal.confidence >= engine.confidence_threshold
        /\ RGe[RMin[engine.position_size, RMul[CapitalLeft, Frac(25, 100)]],
               R(MinTradeUsd)]

\* The positions opened on the candle before the current one.
OpenedOnPrevious ==
    { j \in 1..Len(positions) :
        i > min_lookback /\ positions[j].entry_timestamp = ohlcv_data[i].timestamp }

C19_Step ==
    pc = "loop" /\ i' = i + 1 =>
      /\ Cardinality(OpenedNow) =
            IF EntryWanted /\ LeftOpen < engine.max_positions THEN 1 ELSE 0
      /\ \A k \in OpenedNow :
            /\ IsOpen(positions'[k])
            /\ k = Len(positions')
            /\ positions'[k].entry_price = RMul[CurrentCandle.close, RAdd[R(1), SLIPPAGE]]
      /\ \A k \in 1..Len(NewlyClosed) :
            /\ NewlyClosed[k].entry_timestamp < CurrentCandle.timestamp
            /\ NewlyClosed[k].exit_timestamp = CurrentCandle.timestamp
      /\ \A j \in OpenedOnPrevious :
            (\/ RLe[PnlPct(positions[j], CurrentCandle), RNeg[engine.stop_loss_pct]]
             \/ RGe[PnlPct(positions[j], CurrentCandle), engine.take_profit_pct]) =>
                \E k \in 1..Len(NewlyClosed) :
                    NewlyClosed[k].entry_timestamp = positions[j].entry_timestamp

\* C19: on every processed candle the entry is decided from what the
\* candle's exits left: a position is opened iff the signal asks for one and
\* the positions still open after the exits are fewer than maxPositions (so
\* a slot freed on the candle can be refilled on it); the position opened on
\* the candle leaves the step open, untouched by the exit rules, no trade
\* closed on the candle was opened on it, and a position opened on the
\* candle before is exit-checked on this one.
C19_ExitsBeforeEntries == [][C19_Step]_vars

\* With maxPositions = 1, the candle just processed closed the one open
\* position and a new one was opened on the same candle; the closed one had
\* been opened on the candle before.
C19_Witness ==
    /\ pc = "loop"
    /\ i > min_lookback + 1
    /\ engine.max_positions = 1
    /\ Len(positions) = 1
    /\ IsOpen(positions[1])
    /\ positions[1].entry_timestamp = ohlcv_data[i].timestamp
    /\ \E k \in 1..Len(closed_trades) :
          /\ closed_trades[k].exit_timestamp = ohlcv_data[i].timestamp
          /\ closed_trades[k].entry_timestamp = ohlcv_data[i - 1].timestamp

(***************************************************************************)
(* C20: one exit rule per position and candle, in priority order           *)
(***************************************************************************)
StopLossHit(pos, candle) == RLe[PnlPct(pos, candle), RNeg[engine.stop_loss_pct]]

TakeProfitHit(pos, candle) == RGe[PnlPct(pos, candle), engine.take_profit_pct]

TrailPrice(pos, candle) ==
    RMul[pos.entry_price, RAdd[R(1), RMul[PnlPct(pos, candle), Frac(5, 10)]]]

\* The trailing rule is considered, and it fires.
TrailingConsidered(pos, candle) ==
    /\ ~StopLossHit(pos, candle)
    /\ ~TakeProfitHit(pos, candle)
    /\ RGt[PnlPct(pos, candle), Frac(5, 100)]

TrailingHit(pos, candle) ==
    TrailingConsidered(pos, candle) /\ RLe[candle.low, TrailPrice(pos, candle)]

\* The trades a step closed that were opened when pos was.
ClosesOf(pos) ==
    { k \in 1..Len(NewlyClosed) :
        NewlyClosed[k].entry_timestamp = pos.entry_timestamp }

\* The step leaves pos in positions as it was.
StaysOpenUnchanged(pos) ==
    /\ ClosesOf(pos) = {}
    /\ \E k \in 1..Len(positions') : positions'[k] = pos

C20_Step ==
    pc = "loop" /\ i' = i + 1 =>
      \A j \in 1..Len(positions) :
        LET pos == positions[j]
        IN  /\ Cardinality(ClosesOf(pos)) <= 1
            /\ StopLossHit(pos, CurrentCandle) =>
                  ClosedNowAt(pos, RMul[pos.entry_price,
                                        RSub[R(1), engine.stop_loss_pct]])
            /\ (~StopLossHit(pos, CurrentCandle) /\ TakeProfitHit(pos, CurrentCandle)) =>
                  ClosedNowAt(pos, RMul[pos.entry_price,
                                        RAdd[R(1), engine.take_profit_pct]])
            /\ TrailingHit(pos, CurrentCandle) =>
                  ClosedNowAt(pos, TrailPrice(pos, CurrentCandle))
            /\ (/\ ~StopLossHit(pos, CurrentCandle)
                /\ ~TakeProfitHit(pos, CurrentCandle)
                /\ ~TrailingHit(pos, CurrentCandle)) => StaysOpenUnchanged(pos)

\* C20: on every processed candle each open position is closed at most
\* once, by the first rule that applies of stop-loss, take-profit and
\* trailing: the trailing rule is looked at only when the other two did not
\* fire and pnlPct > 0.05, it closes the position at
\* entryPrice * (1 + pnlPct * 0.5) iff the candle's low is at or under that
\* price, and a position no rule fired for stays in the list unchanged.
C20_ExitPriority == [][C20_Step]_vars

\* A trade closed by the trailing rule: its return at the close of its exit
\* candle was over 5% and under the take-profit, the candle's low was at or
\* under the trail price, and it was sold at the trail price.
C20_Witness ==
    /\ pc \in {"loop", "done"}
    /\ \E j \in 1..Len(closed_trades) :
          LET t == closed_trades[j]
              candle == CandleAt(t.exit_timestamp)
          IN  /\ RGt[PnlPct(t, candle), Frac(5, 100)]
              /\ RLt[PnlPct(t, candle), engine.take_profit_pct]
              /\ RLe[candle.low, TrailPrice(t, candle)]
              /\ t.exit_price = TrailPrice(t, candle)
              /\ RLt[t.exit_price, candle.close]
              /\ RGt[t.pnl, R(0)]

(***************************************************************************)
(* C21: the entry: trade size, entry price and cash                        *)
(***************************************************************************)
\* The signal of the candle a step processes, and the trade size the cash
\* left by the candle's exits allows.
CurrentSignal == SignalAt(engine, ohlcv_data, ind, i, VolumeTrendAt(ohlcv_data, i))

SizeFromCashLeft ==
    RMin[engine.position_size, RMul[CapitalLeft, Frac(25, 100)]]

C21_Step ==
    pc = "loop" /\ i' = i + 1 =>
      IF /\ LeftOpen < engine.max_positions
         /\ CurrentSignal.action = "BUY"
         /\ RGe[SizeFromCashLeft, R(MinTradeUsd)]
      THEN /\ Cardinality(OpenedNow) = 1
           /\ \A k \in OpenedNow :
                 /\ positions'[k].position_size = SizeFromCashLeft
                 /\ positions'[k].entry_price =
                       RMul[CurrentCandle.close, RAdd[R(1), SLIPPAGE]]
           /\ capital' = RSub[CapitalLeft, SizeFromCashLeft]
      ELSE /\ OpenedNow = {}
           /\ capital' = CapitalLeft

\* C21: on every processed candle with room for a position and a BUY signal,
\* a position is opened iff min(positionSize, 0.25 * cash) >= 10; the
\* opened position has that size and the entry price close * (1 + slippage),
\* and cash goes down by exactly that size; with a smaller trade size, a
\* HOLD or no room, no position is opened and the entry leaves cash alone.
C21_Entry == [][C21_Step]_vars

\* The candle just processed opened the first position of the run, with a
\* quarter of the capital, which is under the configured size: it has the
\* slipped close as entry price, and cash is the initial capital less its
\* size.
C21_Witness ==
    /\ pc = "loop"
    /\ i > min_lookback
    /\ closed_trades = <<>>
    /\ Len(positions) = 1
    /\ positions[1].entry_timestamp = ohlcv_data[i].timestamp
    /\ positions[1].position_size = RMul[engine.initial_capital, Frac(25, 100)]
    /\ RLt[positions[1].position_size, engine.position_size]
    /\ positions[1].entry_price = RMul[ohlcv_data[i].close, RAdd[R(1), SLIPPAGE]]
    /\ capital = RSub[engine.initial_capital, positions[1].position_size]

(***************************************************************************)
(* C22: the signal rules, their order and their sum                        *)
(***************************************************************************)
\* Which rules fire for the given indicator values.
RsiOversold == RLt[given.rsi, R(30)]
RsiNearOversold == ~RsiOversold /\ RLt[given.rsi, R(40)]
RsiOverbought == RGt[given.rsi, R(70)]
MacdBullish == given.macd.histogram > 0 /\ given.macd.macd > given.macd.signal
MacdBearish == ~MacdBullish /\ given.macd.histogram < 0
HasBand == given.index < Len(given.bb_data.lower)
AtLowerBand ==
    HasBand /\ LeBand(given.current_price, given.bb_data.lower[given.index + 1])
AtUpperBand ==
    /\ HasBand
    /\ ~AtLowerBand
    /\ GeBand(given.current_price, given.bb_data.upper[given.index + 1])

\* 50 plus the adjustments of the rules that fire.
AdjustedConfidence ==
    BaseConfidence
      + (IF RsiOversold THEN 20 ELSE IF RsiNearOversold THEN 10
         ELSE IF RsiOverbought THEN -15 ELSE 0)
      + (IF MacdBullish THEN 15 ELSE IF MacdBearish THEN -10 ELSE 0)
      + (IF given.volume_trend = "INCREASING" THEN 10
         ELSE IF given.volume_trend = "DECREASING" THEN -10 ELSE 0)
      + (IF AtLowerBand THEN 15 ELSE IF AtUpperBand THEN -15 ELSE 0)

\* The reasons of the rules that fire, in the order RSI, MACD, volume,
\* Bollinger.
ReasonsInOrder ==
    (IF RsiOversold THEN <<"RSI oversold">>
     ELSE IF RsiNearOversold THEN <<"RSI approaching oversold">>
     ELSE IF RsiOverbought THEN <<"RSI overbought - avoid">> ELSE <<>>)
    \o (IF MacdBullish THEN <<"MACD bullish">>
        ELSE IF MacdBearish THEN <<"MACD bearish">> ELSE <<>>)
    \o (IF given.volume_trend = "INCREASING" THEN <<"Volume increasing">>
        ELSE IF given.volume_trend = "DECREASING" THEN <<"Volume decreasing">>
        ELSE <<>>)
    \o (IF AtLowerBand THEN <<"Price at lower Bollinger Band">>
        ELSE IF AtUpperBand THEN <<"Price at upper Bollinger Band">> ELSE <<>>)

BuyRuleFired == RsiOversold \/ MacdBullish \/ AtLowerBand

Clamped(c) ==
    IF c > MaxConfidence THEN MaxConfidence
    ELSE IF c < MinConfidence THEN MinConfidence ELSE c

\* The signal as the four rules leave it, before the clamp and the threshold.
BeforeClamp ==
    BollingerRule(
        VolumeRule(MacdRule(RsiRule(SignalStart, given.rsi), given.macd),
                   given.volume_trend),
        given.current_price, given.bb_data, given.index)

\* C22: the rules run in the order RSI, MACD, volume, Bollinger from
\* confidence 50 and action HOLD; before the clamp the confidence is 50 plus
\* the adjustments of the rules that fired, and the action is BUY iff
\* RSI < 30, a bullish MACD or price <= lower band fired (no later rule takes
\* a BUY back); what is returned is that confidence clamped, and that action
\* unless the clamped confidence is under the threshold.
C22_SignalRules ==
    (given.fn = "signal" /\ returned.signal # NoResult) =>
        /\ BeforeClamp.confidence = AdjustedConfidence
        /\ (BeforeClamp.action = "BUY") <=> BuyRuleFired
        /\ BeforeClamp.action \in {"BUY", "HOLD"}
        /\ returned.signal.reasons = ReasonsInOrder
        /\ returned.signal.confidence = Clamped(AdjustedConfidence)
        /\ returned.signal.action =
              IF BuyRuleFired
                 /\ Clamped(AdjustedConfidence) >= engine.confidence_threshold
              THEN "BUY" ELSE "HOLD"

\* RSI < 30 set BUY, then a bearish MACD, a decreasing volume and a price at
\* the upper band each took confidence away (50 + 20 - 10 - 10 - 15 = 35);
\* with a threshold of 0 the action returned is still BUY.
C22_Witness ==
    /\ given.fn = "signal"
    /\ returned.signal # NoResult
    /\ engine.confidence_threshold = 0
    /\ returned.signal.reasons =
          <<"RSI oversold", "MACD bearish", "Volume decreasing",
            "Price at upper Bollinger Band">>
    /\ returned.signal.confidence = 35
    /\ returned.signal.action = "BUY"

(***************************************************************************)
(* C23: the maximum drawdown                                               *)
(***************************************************************************)
\* The running peak at point k of a curve, and the fall from it there, as an
\* amount and as a percentage of the peak (0 under a peak of 0).
RunningPeak(curve, k) == RMaxOf[SubSeq(curve, 1, k)]

FallAt(curve, k) == RSub[RunningPeak(curve, k), curve[k]]

FallPctAt(curve, k) ==
    IF RGt[RunningPeak(curve, k), R(0)]
    THEN RMul[RDiv[FallAt(curve, k), RunningPeak(curve, k)], R(100)]
    ELSE R(0)

LargestFall(curve) == RMaxOf[[k \in 1..Len(curve) |-> FallAt(curve, k)]]

LargestFallPct(curve) == RMaxOf[[k \in 1..Len(curve) |-> FallPctAt(curve, k)]]

NonDecreasing(curve) ==
    \A k \in 1..(Len(curve) - 1) : RLe[curve[k], curve[k + 1]]

\* C23: in a result with trades, max_drawdown is the largest fall of the
\* equity curve from its running peak and max_drawdown_percent the largest
\* such fall as a percentage of the running peak (both as rounded to two
\* decimals by the result); both are >= 0, and 0 for a non-decreasing curve.
C23_MaxDrawdown ==
    (Returned /\ Len(given.trades) > 0) =>
        /\ returned.results.max_drawdown = Round2[LargestFall(given.equity_curve)]
        /\ returned.results.max_drawdown_percent =
              Round2[LargestFallPct(given.equity_curve)]
        /\ RGe[returned.results.max_drawdown, R(0)]
        /\ RGe[returned.results.max_drawdown_percent, R(0)]
        /\ NonDecreasing(given.equity_curve) =>
              /\ returned.results.max_drawdown = R(0)
              /\ returned.results.max_drawdown_percent = R(0)

(***************************************************************************)
(* C24: the volume trend                                                   *)
(***************************************************************************)
MeanVolume(volumes) == Frac(IntSum[volumes], Len(volumes))

\* The trend of a recent window against an older one.
TrendOf(recent, older) ==
    IF MeanVolume(older) = R(0) THEN "STABLE"
    ELSE LET change ==
                 RMul[RDiv[RSub[MeanVolume(recent), MeanVolume(older)],
                           MeanVolume(older)], R(100)]
         IN  IF RGt[change, R(10)] THEN "INCREASING"
             ELSE IF RLt[change, R(-10)] THEN "DECREASING"
             ELSE "STABLE"

\* The last 7 values of a list, and the 7 before them.
Last7(v) == SubSeq(v, Len(v) - 6, Len(v))
Previous7(v) == SubSeq(v, Len(v) - 13, Len(v) - 7)

\* The volumes of the 14 candles before the candle at index idx.
Preceding14(data, idx) == [p \in 1..14 |-> data[idx - 14 + p].volume]

\* C24: calculate_volume_trend gives STABLE for fewer than 7 volumes; for a
\* list with 7 volumes before its last 7 it compares the mean of the last 7
\* with the mean of the 7 before them: STABLE if the older mean is 0, else
\* INCREASING over +10%, DECREASING under -10%, else STABLE.  In the loop of
\* the backtest it is that comparison on the 14 candles before the current
\* one.
C24_VolumeTrend ==
    /\ (given.fn = "volume" /\ returned.volume_trend # NoResult) =>
          /\ Len(given.volumes) < 7 => returned.volume_trend.value = "STABLE"
          /\ Len(given.volumes) >= 14 =>
                returned.volume_trend.value =
                    TrendOf(Last7(given.volumes), Previous7(given.volumes))
    /\ (given.fn = "loop_volume" /\ returned.volume_trend # NoResult) =>
          returned.volume_trend.value =
              TrendOf(Last7(Preceding14(given.ohlcv_data, given.i)),
                      Previous7(Preceding14(given.ohlcv_data, given.i)))

\* A list of 16 volumes that begins with large ones: the 7 before the last
\* 7 average 1000, the last 7 average 1101 (six of 1000 and one of 1707), and
\* the trend is INCREASING.
C24_Witness ==
    /\ given.fn = "volume"
    /\ returned.volume_trend # NoResult
    /\ Len(given.volumes) = 16
    /\ given.volumes[1] = 5000
    /\ MeanVolume(Previous7(given.volumes)) = R(1000)
    /\ MeanVolume(Last7(given.volumes)) = R(1101)
    /\ given.volumes[15] = 1000
    /\ returned.volume_trend.value = "INCREASING"

(***************************************************************************)
(* C25: conservation of capital                                            *)
(***************************************************************************)
\* C25: the final capital of a result is its initial capital plus the sum
\* of the pnl of its trades, to within a cent of rounding.
C25_CapitalConserved ==
    (pc = "done" /\ result # NoResult) =>
        RLe[RAbs[RSub[result.final_capital,
                      RAdd[result.initial_capital, RSum[Pnls(result.trades)]]]],
            Frac(1, 100)]

(***************************************************************************)
(* C26: no look-ahead.  Two runs on candles that are the same up to a      *)
(* candle are in the same state after that candle.                         *)
(***************************************************************************)
\* How many leading candles two series have in common
CommonCandles(a, b) ==
    CHOOSE n \in 0..Len(a) :
        /\ n <= Len(b)
        /\ SubSeq(a, 1, n) = SubSeq(b, 1, n)
        /\ (n < Len(a) /\ n < Len(b)) => a[n + 1] # b[n + 1]

\* A trade as it was while it was open
AsOpened(trade) ==
    BacktestTrade(trade.entry_timestamp, trade.entry_price, trade.position_size,
                  trade.confidence, trade.indicators)

\* Of the trades a run closed, those it had closed by the time t, the ones it
\* then held open, and the cash it then had.
ClosedBy(trades, t) == SelectSeq(trades, LAMBDA tr : tr.exit_timestamp <= t)

OpenAt(trades, t) ==
    { AsOpened(trades[j]) :
        j \in { k \in 1..Len(trades) :
                  trades[k].entry_timestamp <= t /\ trades[k].exit_timestamp > t } }

EnteredBy(trades, t) == SelectSeq(trades, LAMBDA tr : tr.entry_timestamp <= t)

CashAt(self, trades, t) ==
    RAdd[RSub[self.initial_capital,
              RSum[[j \in 1..Len(EnteredBy(trades, t)) |->
                      EnteredBy(trades, t)[j].position_size]]],
         RSum[Pnls(ClosedBy(trades, t))]]

\* The second run has processed only candles the first run had too
InCommonPrefix ==
    /\ call = "pair"
    /\ pc = "loop"
    /\ i > min_lookback
    /\ i <= CommonCandles(before.data, ohlcv_data)

StopPrice(trade) == RMul[trade.entry_price, RSub[R(1), engine.stop_loss_pct]]
ProfitPrice(trade) == RMul[trade.entry_price, RAdd[R(1), engine.take_profit_pct]]

\* The largest net loss the band allows: the stop distance and two fees of 0.3 %
LossBound(trade) ==
    RMul[trade.position_size,
         RAdd[engine.stop_loss_pct, RMul[R(2), Frac(3, 1000)]]]

\* The trades closed so far were closed by the loop, not by the forced close
InLoop == call # "none" /\ pc = "loop"

\* C27: with 0 < stop_loss_pct and take_profit_pct > 0, every trade closed
\* inside the candle loop has an exit price within
\* [entry_price * (1 - stop_loss_pct), entry_price * (1 + take_profit_pct)],
\* so its net loss is at most position_size * (stop_loss_pct + 2 * 0.003),
\* however far the price gapped.
C27_ExitWithinBand ==
    (InLoop /\ RGt[engine.stop_loss_pct, R(0)] /\ RGt[engine.take_profit_pct, R(0)]) =>
        \A j \in 1..Len(closed_trades) :
            /\ RGe[closed_trades[j].exit_price, StopPrice(closed_trades[j])]
            /\ RLe[closed_trades[j].exit_price, ProfitPrice(closed_trades[j])]
            /\ RLe[RNeg[closed_trades[j].pnl], LossBound(closed_trades[j])]

\* The loop closed a trade on a candle that closed under the stop price.
C27_Witness ==
    /\ InLoop
    /\ RGt[engine.stop_loss_pct, R(0)]
    /\ RGt[engine.take_profit_pct, R(0)]
    /\ \E j \in 1..Len(closed_trades) :
          /\ RLt[CandleAt(closed_trades[j].exit_timestamp).close,
                 StopPrice(closed_trades[j])]
          /\ closed_trades[j].exit_price = StopPrice(closed_trades[j])
          /\ RNeg[closed_trades[j].pnl] = LossBound(closed_trades[j])

(***************************************************************************)
(* C28: cash in the candle loop, for the default configuration.            *)
(***************************************************************************)
\* Every candle of the series has strictly positive prices
PositivePrices ==
    \A p \in 1..Len(ohlcv_data) :
        /\ RGt[ohlcv_data[p].close, R(0)]
        /\ RGt[ohlcv_data[p].low, R(0)]

DefaultLoop == InLoop /\ engine = DefaultEngine /\ PositivePrices

\* C28: with the default configuration and strictly positive prices, cash is
\* never negative in any state of the candle loop, whatever entries and
\* exits came before.
C28_CashNotNegative == DefaultLoop => RGe[capital, R(0)]

\* Three trades entered, one of them closed at a loss, and the cash then left
C28_Witness ==
    /\ DefaultLoop
    /\ Len(closed_trades) + Len(positions) >= 3
    /\ \E j \in 1..Len(closed_trades) : RLt[closed_trades[j].pnl, R(0)]
    /\ RLt[capital, RSub[engine.initial_capital, RMul[R(2), engine.position_size]]]

(***************************************************************************)
(* C29: the signal behind every trade of the result.                       *)
(***************************************************************************)
\* The index of the candle with the given timestamp
IndexAt(timestamp) ==
    (CHOOSE p \in 1..Len(ohlcv_data) : ohlcv_data[p].timestamp = timestamp) - 1

\* The signal the loop got at the candle the trade was entered on
EntrySignal(trade) ==
    SignalAt(engine, ohlcv_data, ind, IndexAt(trade.entry_timestamp),
             VolumeTrendAt(ohlcv_data, IndexAt(trade.entry_timestamp)))

Returned29 == call # "none" /\ pc = "done" /\ result # NoResult

\* C29: every trade of result.trades was opened on a BUY signal whose
\* confidence is at least confidence_threshold and within [20, 90], and the
\* trade records that confidence; so an engine with confidence_threshold
\* above 90 never holds or closes a position.
C29_OpenedOnConfidentBuy ==
    /\ Returned29 =>
          \A j \in 1..Len(result.trades) :
              /\ EntrySignal(result.trades[j]).action = "BUY"
              /\ EntrySignal(result.trades[j]).confidence >= engine.confidence_threshold
              /\ EntrySignal(result.trades[j]).confidence \in 20..90
              /\ result.trades[j].confidence = EntrySignal(result.trades[j]).confidence
    /\ engine.confidence_threshold > 90 =>
          /\ positions = <<>>
          /\ closed_trades = <<>>
          /\ Returned29 => result.trades = <<>>

\* A result with two trades opened on signals of different confidence
C29_Witness ==
    /\ Returned29
    /\ \E j, k \in 1..Len(result.trades) :
          /\ result.trades[j].confidence > result.trades[k].confidence
          /\ result.trades[k].confidence >= engine.confidence_threshold
          /\ EntrySignal(result.trades[j]).confidence = result.trades[j].confidence

(***************************************************************************)
(* C30: runs share no state.  What the batch stored for a symbol is        *)
(* compared with what run_backtest returns for that symbol's candles when  *)
(* it is called on its own (RunAlone).                                     *)
(***************************************************************************)
\* The batch is about to store the result of the run that just returned
Storing == mpc = "iter" /\ pc = "done"

C30_Step ==
    /\ engine' = engine
    /\ pc = "loop" => ohlcv_data' = ohlcv_data
    /\ call \in {"multi", "alone"} =>
          /\ ohlcv_map' = ohlcv_map
          /\ symbols' = symbols
          /\ pc \in {"loop", "done"} => ohlcv_data = ohlcv_map[symbol].data
          /\ ~Storing => results' = results
          /\ Storing =>
                /\ DOMAIN results' = DOMAIN results \cup {symbol}
                /\ results'[symbol] = result
                /\ \A s \in DOMAIN results \ {symbol} : results'[s] = results[s]
    /\ (call' = "alone" /\ pc' = "done") =>
          /\ symbol' \in DOMAIN results'
          /\ result' = results'[symbol']
    /\ (call' = "alone" /\ pc' = "raised") => symbol' \notin DOMAIN results'

\* C30: runs share no state.  The result run_multi_symbol_backtest stores
\* for a symbol is the result of run_backtest on that symbol's candles
\* alone, whatever other symbols the batch has, in whatever order, and
\* whether or not an earlier symbol failed; and a run leaves the engine's
\* configuration and the candle lists it was given unchanged.
C30_RunsShareNoState == [][C30_Step]_vars

\* The second symbol of a batch whose first symbol failed, run alone: it
\* traded, and returned what the batch had stored for it.
C30_Witness ==
    /\ call = "alone"
    /\ pc = "done"
    /\ Len(symbols) = 2
    /\ symbols[1] \in DOMAIN ohlcv_map
    /\ TooFewCandles(ohlcv_map[symbols[1]].data)
    /\ symbol = symbols[2]
    /\ DOMAIN results = {symbol}
    /\ result.total_trades >= 1
    /\ result = results[symbol]

=============================================================================
